---- MODULE Spec2Model ----
(***************************************************************************)
(* Eval orchestrator of llm-serving-tests: Runner.Run, runSequential,      *)
(* runParallel (worker pool over unbuffered channels, one aggregator),     *)
(* runEvalInModes, runSingleEval, the evals' streaming flag and the        *)
(* Logger with its single "current" log file; the eval selection of        *)
(* Runner.Run (name filter, ClassMatches, IsDefaultDisabled); the exit     *)
(* status of runEvals; and the client's parseSSEStream with its            *)
(* toolCallBuilders.                                                       *)
(***************************************************************************)
EXTENDS Integers, Sequences, FiniteSets, TLC

\* ------------------------------------------------------------------ bounds
\* Worker counts explored: Jobs \in 1..MaxJobs.
MaxJobs == 2
\* Jobs of a parallel run that has a logger configured: the log buffers record
\* every interleaving of the workers' entries, so the longer parallel runs (two
\* cases in both modes) are explored without a logger.
MaxLoggedJobs == 2

\* Registered evals the selection of Runner.Run is explored with.
MaxCases == 3

\* Lines of an SSE stream handed to parseSSEStream.
MaxLines == 3

\* --------------------------------------------------------------- constants
ModeBlocking == "blocking"
ModeStreaming == "streaming"
ModeBoth == "both"

\* Registered evals, in registration order (AllEvals: reasoning before agentic).
\* sme: the eval implements StreamModeEval (SetStreaming/Streaming);
\* fixed: the delivery its body uses when it does not (the agentic evals always
\* call ChatCompletionStream).
Registry ==
  << [name |-> "reasoning_present", category |-> "Reasoning", sme |-> TRUE, fixed |-> FALSE],
     [name |-> "agentic_tool_call", category |-> "Agentic", sme |-> FALSE, fixed |-> TRUE] >>

EvalIds == 1..Len(Registry)

\* Goroutine ids: 0 is the goroutine that called Run, the others can be
\* started as workers.
Threads == 0..(MaxJobs + 1)

\* Faulty variant of Workers: one goroutine more than Jobs.
WorkersOneTooMany(n) == 1..(n + 1)

\* "for range r.config.Jobs": the workers runParallel starts.
Workers(n) == 1..n

None == [none |-> TRUE]

VARIABLES
  config,           \* RunnerConfig: Jobs, Mode, Logger (configured or nil)
  server,           \* the server's answer per delivery: status 200 or not
  evals,            \* the evals Run selected, in registration order
  streaming,        \* the streaming field of every registered eval object
  pc,               \* position of every thread
  job,              \* the evalJob a thread is running
  name,             \* runSingleEval's local name
  ran,              \* the delivery the body chose after reading its flag
  result,           \* the Result a thread holds
  i, k,             \* loop positions of thread 0: eval index, mode index
  modeResults,      \* runEvalInModes's local results
  currentCategory,  \* runSequential's local currentCategory
  current,          \* Logger.current
  fileWrites,       \* every os.WriteFile of the Logger, in order
  jobsClosed, resultClosed,
  apc, acur,        \* the aggregator goroutine and the Result it received
  results,          \* the results list of runSequential / runParallel
  console,          \* the lines printed
  returned,         \* what Run returned
  invoked,          \* how often e.Run was called for a job
  hung,             \* the job whose request is never answered, if any
  exitCode,         \* the exit status runEvals reports
  \* Runner.Run's selection of the evals to run
  registered,       \* r.evals: name, class and default-disabled flag per eval
  selConfig,        \* RunnerConfig: Filter, Class, All
  selPc, selIdx,    \* position in the filter loop
  selected,         \* the local evals, as indices into registered
  \* parseSSEStream
  stream,           \* the lines the scanner will deliver
  ppc, sp,          \* position of the parser, lines scanned
  Chunks, Content, ReasoningContent, Usage, ToolCalls,   \* the StreamResult
  toolCallBuilders, \* map[int]*toolCallBuilder
  bi,               \* index of the loop that builds the final tool calls
  rawChunks,        \* the raw lines captured for logging
  out,              \* what parseSSEStream returned: result, raw lines, error
  synthetic,        \* the response the logger rebuilt for the report
  eStreaming,       \* the streaming flag of the incident-investigation eval
  cpc,              \* where its Run, and the client call it makes, stand
  iteration,        \* i of "for i := range maxIterations"
  toolCallRounds,   \* toolCallRounds
  requests,         \* HTTP requests issued so far
  decodes,          \* response bodies handed to json.Unmarshal / parseSSEStream
  resp,             \* the HTTP response of the request in progress
  ret,              \* what the client call returned to the case body
  caseResult,       \* the Result the case body returned
  recons            \* the locals of each of several calls of parseSSEStream

runnerVars == << config, server, evals, streaming, pc, job, name, ran, result,
                 i, k, modeResults, currentCategory, current, fileWrites,
                 jobsClosed, resultClosed, apc, acur, results, console,
                 returned, invoked, hung, exitCode >>
selVars == << registered, selConfig, selPc, selIdx, selected >>
sseVars == << stream, ppc, sp, Chunks, Content, ReasoningContent, Usage,
              ToolCalls, toolCallBuilders, bi, rawChunks, out, synthetic >>
caseVars == << eStreaming, cpc, iteration, toolCallRounds, requests, decodes,
               resp, ret, caseResult >>
restVars == << caseVars, recons >>

vars == << runnerVars, selVars, sseVars, restVars >>

\* ----------------------------------------------------------------- helpers
\* Strictly increasing sequences over EvalIds of length at most n: what the
\* filter loop of Run can leave of the registry.
RECURSIVE Selections(_)
Selections(n) ==
  IF n = 0 THEN { <<>> }
  ELSE LET shorter == Selections(n - 1)
       IN shorter \cup
          { Append(s, e) : s \in { x \in shorter : Len(x) = n - 1 }, e \in EvalIds }

IsIncreasing(s) == \A a, b \in 1..Len(s) : a < b => s[a] < s[b]

\* mode == "" defaults to both.
EffectiveMode(mode) == IF mode = "" THEN ModeBoth ELSE mode

\* Faulty variant of ModeFlags: the ModeBoth case runs the streaming job first.
ModeFlagsStreamingFirst(mode) ==
  CASE EffectiveMode(mode) = ModeBlocking -> << FALSE >>
    [] EffectiveMode(mode) = ModeStreaming -> << TRUE >>
    [] EffectiveMode(mode) = ModeBoth -> << TRUE, FALSE >>
    [] OTHER -> << >>

\* Faulty variant of ModeFlags: the ModeBoth case sends the blocking job twice.
ModeFlagsBlockingTwice(mode) ==
  CASE EffectiveMode(mode) = ModeBlocking -> << FALSE >>
    [] EffectiveMode(mode) = ModeStreaming -> << TRUE >>
    [] EffectiveMode(mode) = ModeBoth -> << FALSE, FALSE >>
    [] OTHER -> << >>

\* The streaming arguments runSingleEval is called with for one eval, in order.
ModeFlags(mode) ==
  CASE EffectiveMode(mode) = ModeBlocking -> << FALSE >>
    [] EffectiveMode(mode) = ModeStreaming -> << TRUE >>
    [] EffectiveMode(mode) = ModeBoth -> << FALSE, TRUE >>
    [] OTHER -> << >>

\* Build name with mode suffix.
JobName(e, s) ==
  Registry[e].name \o (IF s THEN " (streaming)" ELSE " (blocking)")

AllJobs == [eval : EvalIds, streaming : BOOLEAN]

\* The jobs of a run in submission order.
RECURSIVE JobList(_, _)
JobList(es, mode) ==
  IF es = <<>> THEN <<>>
  ELSE [ n \in 1..Len(ModeFlags(mode)) |->
           [eval |-> Head(es), streaming |-> ModeFlags(mode)[n]] ]
       \o JobList(Tail(es), mode)

\* The servers a run is made against, as the status per delivery (TRUE: 200):
\* one that serves both deliveries and one whose streaming endpoint fails.
Servers == { [b \in BOOLEAN |-> TRUE], [b \in BOOLEAN |-> ~b] }

\* The Result of a case body run with the given delivery: a non-200 status
\* becomes a failed Result carrying the error.
BodyResult(e, delivery) ==
  IF server[delivery]
  THEN [Passed |-> TRUE, Message |-> ""]
  ELSE [Passed |-> FALSE, Message |-> "request failed: unexpected status"]

Entry(kind, by, info) == [kind |-> kind, by |-> by, info |-> info]

\* printResult / printResultParallel
ResultLine(r, parallel) ==
  [kind |-> IF r.Passed THEN "pass" ELSE "fail",
   text |-> r.Name,
   cat |-> IF parallel THEN r.Category ELSE ""]

\* Logger methods: every one locks mu and returns early on current == nil.
Logged(cur, e) ==
  IF cur = None THEN cur ELSE [cur EXCEPT !.buf = Append(@, e)]

\* -------------------------------------------------------------------- Init
\* The selection and the parser before they are called.
SelectIdle ==
  /\ registered = <<>>
  /\ selConfig = [Filter |-> <<>>, Class |-> "", All |-> FALSE]
  /\ selPc = "idle"
  /\ selIdx = 1
  /\ selected = <<>>

ParserIdle ==
  /\ stream = <<>>
  /\ ppc = "idle"
  /\ sp = 0
  /\ Chunks = <<>>
  /\ Content = ""
  /\ ReasoningContent = ""
  /\ Usage = None
  /\ ToolCalls = <<>>
  /\ toolCallBuilders = <<>>
  /\ bi = 0
  /\ rawChunks = <<>>
  /\ out = None
  /\ synthetic = None

\* No case body is running.
CaseIdle ==
  /\ eStreaming = FALSE
  /\ cpc = "idle"
  /\ iteration = 0
  /\ toolCallRounds = 0
  /\ requests = 0
  /\ decodes = 0
  /\ resp = None
  /\ ret = None
  /\ caseResult = None

\* No further call of parseSSEStream is in progress.
PairIdle == recons = << >>

RestIdle == CaseIdle /\ PairIdle

\* The configurations, servers and selections a run is started with.
RunnerInputs ==
  /\ config \in [Jobs : 1..MaxJobs,
                 Mode : {"", ModeBlocking, ModeStreaming, ModeBoth},
                 Logger : BOOLEAN]
  /\ server \in Servers
  /\ evals \in { s \in Selections(Len(Registry)) : IsIncreasing(s) }
  /\ (config.Logger /\ config.Jobs > 1)
       => Len(JobList(evals, config.Mode)) <= MaxLoggedJobs

\* The runner after NewRunner, before Run.
RunnerStart ==
  /\ streaming = [e \in EvalIds |-> FALSE]
  /\ pc = [t \in Threads |-> IF t = 0 THEN "run" ELSE "none"]
  /\ job = [t \in Threads |-> None]
  /\ name = [t \in Threads |-> ""]
  /\ ran = [t \in Threads |-> FALSE]
  /\ result = [t \in Threads |-> None]
  /\ i = 1
  /\ k = 1
  /\ modeResults = <<>>
  /\ currentCategory = ""
  /\ current = None
  /\ fileWrites = <<>>
  /\ jobsClosed = FALSE
  /\ resultClosed = FALSE
  /\ apc = "none"
  /\ acur = None
  /\ results = <<>>
  /\ console = <<>>
  /\ returned = None
  /\ invoked = [j \in AllJobs |-> 0]
  /\ exitCode = None

\* A run against a server that answers every request.
Init ==
  /\ RunnerInputs
  /\ RunnerStart
  /\ hung = None
  /\ SelectIdle
  /\ ParserIdle
  /\ RestIdle

\* ------------------------------------------------------------ variable groups
\* cfgVars: the inputs of a run and everything else the steps of a run leave
\* alone.
cfgVars == << config, server, evals, hung, exitCode, selVars, sseVars,
             restVars >>
threadVars == << pc, job, name, ran, result >>
loopVars == << i, k, modeResults, currentCategory >>
logVars == << current, fileWrites >>
chanVars == << jobsClosed, resultClosed, apc, acur >>
outVars == << results, console, returned >>

Sequential == config.Jobs <= 1

\* A case body is executing on thread t: e.Run was called and has not returned.
InBody(t) == pc[t] \in {"http", "logreq", "logresp"}

\* --------------------------------------------------------------- Runner.Run
\* Run: Jobs <= 1 goes to runSequential, otherwise runParallel starts its
\* workers and the aggregator goroutine.
Run ==
  /\ pc[0] = "run"
  /\ IF config.Jobs <= 1
     THEN /\ pc' = [pc EXCEPT ![0] = "seq_loop"]
          /\ apc' = apc
     ELSE /\ pc' = [t \in Threads |->
                      IF t = 0 THEN "par_dispatch"
                      ELSE IF t \in Workers(config.Jobs) THEN "recv" ELSE pc[t]]
          /\ apc' = "recv"
  /\ UNCHANGED << cfgVars, streaming, job, name, ran, result, loopVars, logVars,
                  jobsClosed, resultClosed, acur, outVars, invoked >>

\* ------------------------------------------------------------ runSingleEval
\* Set streaming mode if the eval supports it, and build the name.
SetStreaming(t) ==
  /\ pc[t] = "set"
  /\ streaming' = IF Registry[job[t].eval].sme
                  THEN [streaming EXCEPT ![job[t].eval] = job[t].streaming]
                  ELSE streaming
  /\ name' = [name EXCEPT ![t] = JobName(job[t].eval, job[t].streaming)]
  /\ pc' = [pc EXCEPT ![t] = IF config.Logger THEN "start" ELSE "call"]
  /\ UNCHANGED << cfgVars, job, ran, result, loopVars, logVars, chanVars,
                  outVars, invoked >>

\* Logger.StartEval: replaces Logger.current by a fresh log file.
StartEval(t) ==
  /\ pc[t] = "start"
  /\ current' = [name |-> name[t], buf |-> << Entry("start", name[t], name[t]) >>]
  /\ pc' = [pc EXCEPT ![t] = "call"]
  /\ UNCHANGED << cfgVars, streaming, job, name, ran, result, loopVars,
                  fileWrites, chanVars, outVars, invoked >>

\* e.Run is called: the body reads its streaming flag and issues the request
\* with that delivery.
BodyRead(t) ==
  /\ pc[t] = "call"
  /\ ran' = [ran EXCEPT ![t] = IF Registry[job[t].eval].sme
                               THEN streaming[job[t].eval]
                               ELSE Registry[job[t].eval].fixed]
  /\ invoked' = [invoked EXCEPT ![job[t]] = @ + 1]
  /\ pc' = [pc EXCEPT ![t] = "http"]
  /\ UNCHANGED << cfgVars, streaming, job, name, result, loopVars, logVars,
                  chanVars, outVars >>

\* The finished Result of runSingleEval: the body's Result with Name and
\* Category overwritten.
Finished(t) ==
  [Name |-> name[t],
   Category |-> Registry[job[t].eval].category,
   Passed |-> BodyResult(job[t].eval, ran[t]).Passed,
   Message |-> BodyResult(job[t].eval, ran[t]).Message]

\* The HTTP response arrives (never, for a hung request). With no logger the
\* body returns right away and so does runSingleEval.
BodyHTTP(t) ==
  /\ pc[t] = "http"
  /\ job[t] # hung
  /\ IF config.Logger
     THEN /\ pc' = [pc EXCEPT ![t] = "logreq"]
          /\ result' = result
     ELSE /\ pc' = [pc EXCEPT ![t] = "ret"]
          /\ result' = [result EXCEPT ![t] = Finished(t)]
  /\ UNCHANGED << cfgVars, streaming, job, name, ran, loopVars, logVars,
                  chanVars, outVars, invoked >>

\* Logger.LogRequest, called by the client inside the body.
LogRequest(t) ==
  /\ pc[t] = "logreq"
  /\ current' = Logged(current, Entry("request", name[t],
                                      IF ran[t] THEN "stream" ELSE "block"))
  /\ pc' = [pc EXCEPT ![t] = "logresp"]
  /\ UNCHANGED << cfgVars, streaming, job, name, ran, result, loopVars,
                  fileWrites, chanVars, outVars, invoked >>

\* Faulty variant of LogResponse: once the response is logged the body
\* reports success.
LogResponseSwallowsError(t) ==
  /\ pc[t] = "logresp"
  /\ current' = Logged(current, Entry("response", name[t],
                                      IF server[ran[t]] THEN "200" ELSE "500"))
  /\ result' = [result EXCEPT ![t] = [Finished(t) EXCEPT !.Passed = TRUE,
                                                         !.Message = ""]]
  /\ pc' = [pc EXCEPT ![t] = "logresult"]
  /\ UNCHANGED << cfgVars, streaming, job, name, ran, loopVars, fileWrites,
                  chanVars, outVars, invoked >>

\* Logger.LogResponse / LogStreamResponse; the body then returns its Result.
LogResponse(t) ==
  /\ pc[t] = "logresp"
  /\ current' = Logged(current, Entry("response", name[t],
                                      IF server[ran[t]] THEN "200" ELSE "500"))
  /\ result' = [result EXCEPT ![t] = Finished(t)]
  /\ pc' = [pc EXCEPT ![t] = "logresult"]
  /\ UNCHANGED << cfgVars, streaming, job, name, ran, loopVars, fileWrites,
                  chanVars, outVars, invoked >>

\* Logger.LogResult
LogResult(t) ==
  /\ pc[t] = "logresult"
  /\ current' = Logged(current, Entry("result", name[t],
                                      IF result[t].Passed THEN "PASSED" ELSE "FAILED"))
  /\ pc' = [pc EXCEPT ![t] = "end"]
  /\ UNCHANGED << cfgVars, streaming, job, name, ran, result, loopVars,
                  fileWrites, chanVars, outVars, invoked >>

\* Logger.EndEval: writes Logger.current under its name and clears it; does
\* nothing when current is nil.
EndEval(t) ==
  /\ pc[t] = "end"
  /\ IF current = None
     THEN UNCHANGED logVars
     ELSE /\ fileWrites' = Append(fileWrites,
                                   [file |-> current.name, buf |-> current.buf, by |-> name[t]])
          /\ current' = None
  /\ pc' = [pc EXCEPT ![t] = "ret"]
  /\ UNCHANGED << cfgVars, streaming, job, name, ran, result, loopVars,
                  chanVars, outVars, invoked >>

\* ------------------------------------------------------------- runSequential
\* Top of the loop over evals: return after the last one; otherwise print the
\* category header when it changes and enter runEvalInModes with its first mode.
SeqLoop ==
  /\ pc[0] = "seq_loop"
  /\ IF i > Len(evals)
     THEN /\ returned' = results
          /\ pc' = [pc EXCEPT ![0] = "done"]
          /\ UNCHANGED << job, k, modeResults, currentCategory, console >>
     ELSE /\ IF Registry[evals[i]].category # currentCategory
             THEN /\ currentCategory' = Registry[evals[i]].category
                  /\ console' = Append(console,
                                       [kind |-> "category",
                                        text |-> Registry[evals[i]].category,
                                        cat |-> ""])
             ELSE UNCHANGED << currentCategory, console >>
          /\ modeResults' = <<>>
          /\ k' = 1
          /\ job' = [job EXCEPT ![0] = [eval |-> evals[i],
                                        streaming |-> ModeFlags(config.Mode)[1]]]
          /\ pc' = [pc EXCEPT ![0] = "set"]
          /\ returned' = returned
  /\ UNCHANGED << cfgVars, streaming, name, ran, result, i, logVars, chanVars,
                  results, invoked >>

\* runEvalInModes: append the Result of runSingleEval, then run the next mode
\* or return the list.
RunEvalInModes ==
  /\ pc[0] = "ret"
  /\ modeResults' = Append(modeResults, result[0])
  /\ IF k < Len(ModeFlags(config.Mode))
     THEN /\ k' = k + 1
          /\ job' = [job EXCEPT ![0] = [eval |-> evals[i],
                                        streaming |-> ModeFlags(config.Mode)[k + 1]]]
          /\ pc' = [pc EXCEPT ![0] = "set"]
     ELSE /\ UNCHANGED << k, job >>
          /\ pc' = [pc EXCEPT ![0] = "seq_print"]
  /\ UNCHANGED << cfgVars, streaming, name, ran, result, i, currentCategory,
                  logVars, chanVars, outVars, invoked >>

\* Faulty variant of SeqRecord: runSequential returns as soon as it has
\* recorded a failed Result.
SeqRecordAbortOnFail ==
  /\ pc[0] = "seq_print"
  /\ IF modeResults # <<>>
     THEN /\ console' = Append(console, ResultLine(Head(modeResults), FALSE))
          /\ results' = Append(results, Head(modeResults))
          /\ modeResults' = Tail(modeResults)
          /\ IF Head(modeResults).Passed
             THEN UNCHANGED << pc, returned >>
             ELSE /\ pc' = [pc EXCEPT ![0] = "done"]
                  /\ returned' = results'
          /\ i' = i
     ELSE /\ i' = i + 1
          /\ pc' = [pc EXCEPT ![0] = "seq_loop"]
          /\ UNCHANGED << console, results, modeResults, returned >>
  /\ UNCHANGED << cfgVars, streaming, job, name, ran, result, k,
                  currentCategory, logVars, chanVars, invoked >>

\* The loop over the Results runEvalInModes returned: print, append.
SeqRecord ==
  /\ pc[0] = "seq_print"
  /\ IF modeResults # <<>>
     THEN /\ console' = Append(console, ResultLine(Head(modeResults), FALSE))
          /\ results' = Append(results, Head(modeResults))
          /\ modeResults' = Tail(modeResults)
          /\ UNCHANGED << i, pc >>
     ELSE /\ i' = i + 1
          /\ pc' = [pc EXCEPT ![0] = "seq_loop"]
          /\ UNCHANGED << console, results, modeResults >>
  /\ UNCHANGED << cfgVars, streaming, job, name, ran, result, k,
                  currentCategory, logVars, chanVars, returned, invoked >>

\* --------------------------------------------------------------- runParallel
\* Faulty variant of Dispatch: every job is handed to the first worker.
DispatchFirstWorkerOnly(w) ==
  /\ pc[0] = "par_dispatch"
  /\ i <= Len(evals)
  /\ w = 1
  /\ pc[w] = "recv"
  /\ job' = [job EXCEPT ![w] = [eval |-> evals[i],
                                streaming |-> ModeFlags(config.Mode)[k]]]
  /\ pc' = [pc EXCEPT ![w] = "set"]
  /\ IF k < Len(ModeFlags(config.Mode))
     THEN /\ k' = k + 1
          /\ i' = i
     ELSE /\ k' = 1
          /\ i' = i + 1
  /\ UNCHANGED << cfgVars, streaming, name, ran, result, modeResults,
                  currentCategory, logVars, chanVars, outVars, invoked >>

\* jobs <- evalJob{...}: the unbuffered send meets a worker waiting in
\* "for job := range jobs".
Dispatch(w) ==
  /\ pc[0] = "par_dispatch"
  /\ i <= Len(evals)
  /\ w \in Workers(config.Jobs)
  /\ pc[w] = "recv"
  /\ job' = [job EXCEPT ![w] = [eval |-> evals[i],
                                streaming |-> ModeFlags(config.Mode)[k]]]
  /\ pc' = [pc EXCEPT ![w] = "set"]
  /\ IF k < Len(ModeFlags(config.Mode))
     THEN /\ k' = k + 1
          /\ i' = i
     ELSE /\ k' = 1
          /\ i' = i + 1
  /\ UNCHANGED << cfgVars, streaming, name, ran, result, modeResults,
                  currentCategory, logVars, chanVars, outVars, invoked >>

\* close(jobs) after the last send.
CloseJobs ==
  /\ pc[0] = "par_dispatch"
  /\ i > Len(evals)
  /\ jobsClosed' = TRUE
  /\ pc' = [pc EXCEPT ![0] = "par_wgwait"]
  /\ UNCHANGED << cfgVars, streaming, job, name, ran, result, loopVars, logVars,
                  resultClosed, apc, acur, outVars, invoked >>

\* A worker's range over jobs ends on the closed channel: wg.Done.
WorkerExit(w) ==
  /\ w \in Workers(config.Jobs)
  /\ pc[w] = "recv"
  /\ jobsClosed
  /\ pc' = [pc EXCEPT ![w] = "exited"]
  /\ UNCHANGED << cfgVars, streaming, job, name, ran, result, loopVars, logVars,
                  chanVars, outVars, invoked >>

\* Faulty variant of SendResult: a worker keeps a failed Result to itself and
\* takes the next job.
SendResultDropFailed(w) ==
  /\ w \in Workers(config.Jobs)
  /\ pc[w] = "ret"
  /\ IF result[w].Passed
     THEN /\ apc = "recv"
          /\ acur' = result[w]
          /\ apc' = "handle"
     ELSE UNCHANGED << acur, apc >>
  /\ pc' = [pc EXCEPT ![w] = "recv"]
  /\ job' = [job EXCEPT ![w] = None]
  /\ name' = [name EXCEPT ![w] = ""]
  /\ ran' = [ran EXCEPT ![w] = FALSE]
  /\ result' = [result EXCEPT ![w] = None]
  /\ UNCHANGED << cfgVars, streaming, loopVars, logVars, jobsClosed,
                  resultClosed, outVars, invoked >>

\* resultChan <- result: the unbuffered send meets the aggregator's receive;
\* the worker's loop variables go out of scope.
SendResult(w) ==
  /\ w \in Workers(config.Jobs)
  /\ pc[w] = "ret"
  /\ apc = "recv"
  /\ acur' = result[w]
  /\ apc' = "handle"
  /\ pc' = [pc EXCEPT ![w] = "recv"]
  /\ job' = [job EXCEPT ![w] = None]
  /\ name' = [name EXCEPT ![w] = ""]
  /\ ran' = [ran EXCEPT ![w] = FALSE]
  /\ result' = [result EXCEPT ![w] = None]
  /\ UNCHANGED << cfgVars, streaming, loopVars, logVars, jobsClosed,
                  resultClosed, outVars, invoked >>

\* The aggregator's loop body: printResultParallel, append.
Aggregate ==
  /\ apc = "handle"
  /\ console' = Append(console, ResultLine(acur, TRUE))
  /\ results' = Append(results, acur)
  /\ apc' = "recv"
  /\ UNCHANGED << cfgVars, streaming, threadVars, loopVars, logVars, jobsClosed,
                  resultClosed, acur, returned, invoked >>

\* Faulty variant of CloseResults: resultChan is closed without wg.Wait.
CloseResultsNoWait ==
  /\ pc[0] = "par_wgwait"
  /\ resultClosed' = TRUE
  /\ pc' = [pc EXCEPT ![0] = "par_resultwait"]
  /\ UNCHANGED << cfgVars, streaming, job, name, ran, result, loopVars, logVars,
                  jobsClosed, apc, acur, outVars, invoked >>

\* wg.Wait returns once every worker is done; close(resultChan).
CloseResults ==
  /\ pc[0] = "par_wgwait"
  /\ \A w \in Workers(config.Jobs) : pc[w] = "exited"
  /\ resultClosed' = TRUE
  /\ pc' = [pc EXCEPT ![0] = "par_resultwait"]
  /\ UNCHANGED << cfgVars, streaming, job, name, ran, result, loopVars, logVars,
                  jobsClosed, apc, acur, outVars, invoked >>

\* The aggregator's range over resultChan ends: resultWg.Done.
AggregatorExit ==
  /\ apc = "recv"
  /\ resultClosed
  /\ apc' = "exited"
  /\ UNCHANGED << cfgVars, streaming, threadVars, loopVars, logVars, jobsClosed,
                  resultClosed, acur, outVars, invoked >>

\* Faulty variant of ParReturn: runParallel returns without resultWg.Wait.
ParReturnNoWait ==
  /\ pc[0] = "par_resultwait"
  /\ returned' = results
  /\ pc' = [pc EXCEPT ![0] = "done"]
  /\ UNCHANGED << cfgVars, streaming, job, name, ran, result, loopVars, logVars,
                  chanVars, results, console, invoked >>

\* resultWg.Wait returns; return results.
ParReturn ==
  /\ pc[0] = "par_resultwait"
  /\ apc = "exited"
  /\ returned' = results
  /\ pc' = [pc EXCEPT ![0] = "done"]
  /\ UNCHANGED << cfgVars, streaming, job, name, ran, result, loopVars, logVars,
                  chanVars, results, console, invoked >>

\* ------------------------------------------------------------------ runEvals
\* The number of passed Results, counted as runEvals counts them.
RECURSIVE CountPassed(_)
CountPassed(rs) ==
  IF rs = <<>> THEN 0
  ELSE (IF Head(rs).Passed THEN 1 ELSE 0) + CountPassed(Tail(rs))

\* Faulty variant of ExitStatus: failure only when no Result passed.
ExitStatusAllFailed(rs) == IF CountPassed(rs) = 0 /\ Len(rs) > 0 THEN 1 ELSE 0

\* if passed < len(results) { os.Exit(1) }; return nil
ExitStatus(rs) == IF CountPassed(rs) < Len(rs) THEN 1 ELSE 0

\* runEvals after runner.Run returned: summary and exit status.
RunEvalsExit ==
  /\ pc[0] = "done"
  /\ exitCode = None
  /\ exitCode' = [code |-> ExitStatus(returned)]
  /\ UNCHANGED << config, server, evals, hung, selVars, sseVars, restVars,
                  streaming, threadVars, loopVars, logVars, chanVars, outVars,
                  invoked >>

\* ----------------------------------------------------------- specification
Next ==
  \/ Run
  \/ \E t \in Threads : SetStreaming(t)
  \/ \E t \in Threads : StartEval(t)
  \/ \E t \in Threads : BodyRead(t)
  \/ \E t \in Threads : BodyHTTP(t)
  \/ \E t \in Threads : LogRequest(t)
  \/ \E t \in Threads : LogResponse(t)
  \/ \E t \in Threads : LogResult(t)
  \/ \E t \in Threads : EndEval(t)
  \/ SeqLoop
  \/ RunEvalInModes
  \/ SeqRecord
  \/ \E w \in Threads : Dispatch(w)
  \/ CloseJobs
  \/ \E w \in Threads : WorkerExit(w)
  \/ \E w \in Threads : SendResult(w)
  \/ Aggregate
  \/ CloseResults
  \/ AggregatorExit
  \/ ParReturn
  \/ RunEvalsExit

Spec == Init /\ [][Next]_vars

Done == pc[0] = "done"

\* ------------------------------------------------- runs with a hung request
\* As Init, but the server may never answer the request of one of the jobs.
\* The parallel runs are explored without a logger.
InitHang ==
  /\ RunnerInputs
  /\ config.Logger => config.Jobs <= 1
  /\ RunnerStart
  /\ hung \in {None} \cup { JobList(evals, config.Mode)[n] :
                               n \in 1..Len(JobList(evals, config.Mode)) }
  /\ SelectIdle
  /\ ParserIdle
  /\ RestIdle

\* The steps of the goroutine that called Run, of goroutine t inside
\* runSingleEval or the worker loop, and of the aggregator.
MainStep ==
  \/ Run
  \/ SeqLoop
  \/ RunEvalInModes
  \/ SeqRecord
  \/ \E w \in Threads : Dispatch(w)
  \/ CloseJobs
  \/ CloseResults
  \/ ParReturn
  \/ RunEvalsExit

ThreadStep(t) ==
  \/ SetStreaming(t)
  \/ StartEval(t)
  \/ BodyRead(t)
  \/ BodyHTTP(t)
  \/ LogRequest(t)
  \/ LogResponse(t)
  \/ LogResult(t)
  \/ EndEval(t)
  \/ WorkerExit(t)
  \/ SendResult(t)

AggregatorStep == Aggregate \/ AggregatorExit

\* The Go scheduler runs every goroutine that can take a step.
Fairness ==
  /\ WF_vars(MainStep)
  /\ WF_vars(AggregatorStep)
  /\ \A t \in Threads : WF_vars(ThreadStep(t))

SpecHang == InitHang /\ [][Next]_vars /\ Fairness

\* ------------------------------------------------- Runner.Run: the selection
ClassStandard == "standard"
ClassReasoning == "reasoning"
ClassInterleaved == "interleaved"

\* AllClasses
Classes == { ClassStandard, ClassReasoning, ClassInterleaved }

\* Faulty variant of ClassMatches: interleaved does not run the reasoning evals.
ClassMatchesSkipsReasoning(evalClass, requestedClass) ==
  IF requestedClass = "" THEN TRUE
  ELSE IF evalClass = requestedClass THEN TRUE
  ELSE IF requestedClass = ClassReasoning /\ evalClass = ClassStandard THEN TRUE
  ELSE IF requestedClass = ClassInterleaved /\ evalClass = ClassStandard THEN TRUE
  ELSE FALSE

\* ClassMatches, return by return.
ClassMatches(evalClass, requestedClass) ==
  IF requestedClass = "" THEN TRUE
  ELSE IF evalClass = requestedClass THEN TRUE
  ELSE IF requestedClass = ClassReasoning /\ evalClass = ClassStandard THEN TRUE
  ELSE IF requestedClass = ClassInterleaved
          /\ (evalClass = ClassStandard \/ evalClass = ClassReasoning) THEN TRUE
  ELSE FALSE

\* strings.Contains on strings written as sequences of characters.
Contains(str, substr) ==
  \E off \in 0..Len(str) :
    /\ off + Len(substr) <= Len(str)
    /\ \A c \in 1..Len(substr) : str[off + c] = substr[c]

\* IsDefaultDisabled: the eval implements DefaultDisabled and returns true.
IsDefaultDisabled(e) == e.disabled

\* The names, filters and evals the selection is explored with.
CaseNames == { << "a" >>, << "a", "b" >> }
Filters == { << >>, << "b" >>, << "b", "a" >> }
Cases == [name : CaseNames, class : Classes, disabled : BOOLEAN]

RECURSIVE Registries(_)
Registries(n) ==
  IF n = 0 THEN { << >> }
  ELSE LET shorter == Registries(n - 1)
       IN shorter \cup
          { Append(r, c) : r \in { x \in shorter : Len(x) = n - 1 }, c \in Cases }

\* A runner that is not running evals.
RunnerIdle ==
  /\ config = [Jobs |-> 1, Mode |-> "", Logger |-> FALSE]
  /\ server = [b \in BOOLEAN |-> TRUE]
  /\ evals = << >>
  /\ RunnerStart
  /\ hung = None

\* Run is called on a runner with the registered evals and the three options.
InitSelect ==
  /\ RunnerIdle
  /\ ParserIdle
  /\ RestIdle
  /\ registered \in Registries(MaxCases)
  /\ selConfig \in [Filter : Filters, Class : Classes \cup {""}, All : BOOLEAN]
  /\ selPc = "filter"
  /\ selIdx = 1
  /\ selected = << >>

\* Faulty variant of FilterStep: a default-disabled eval is skipped whatever
\* the "all" option says.
FilterStepIgnoresAll ==
  /\ selPc = "filter"
  /\ selIdx <= Len(registered)
  /\ selected' =
       IF selConfig.Filter # << >>
          /\ ~Contains(registered[selIdx].name, selConfig.Filter)
       THEN selected
       ELSE IF ~ClassMatches(registered[selIdx].class, selConfig.Class)
       THEN selected
       ELSE IF IsDefaultDisabled(registered[selIdx])
       THEN selected
       ELSE Append(selected, selIdx)
  /\ selIdx' = selIdx + 1
  /\ UNCHANGED << runnerVars, sseVars, restVars, registered, selConfig, selPc >>

\* One iteration of "for _, e := range r.evals": the three continues, then
\* the append.
FilterStep ==
  /\ selPc = "filter"
  /\ selIdx <= Len(registered)
  /\ selected' =
       IF selConfig.Filter # << >>
          /\ ~Contains(registered[selIdx].name, selConfig.Filter)
       THEN selected
       ELSE IF ~ClassMatches(registered[selIdx].class, selConfig.Class)
       THEN selected
       ELSE IF ~selConfig.All /\ IsDefaultDisabled(registered[selIdx])
       THEN selected
       ELSE Append(selected, selIdx)
  /\ selIdx' = selIdx + 1
  /\ UNCHANGED << runnerVars, sseVars, restVars, registered, selConfig, selPc >>

\* The loop ends; the selected evals go to runSequential or runParallel.
FilterDone ==
  /\ selPc = "filter"
  /\ selIdx > Len(registered)
  /\ selPc' = "done"
  /\ UNCHANGED << runnerVars, sseVars, restVars, registered, selConfig, selIdx, selected >>

NextSelect == FilterStep \/ FilterDone

SpecSelect == InitSelect /\ [][NextSelect]_vars

\* ------------------------------------------------------------ parseSSEStream
\* A ToolCallDelta, a ChunkDelta inside its ChunkChoice, a ChatCompletionChunk
\* on a "data: " line.
ToolCallDelta(idx, id, typ, nm, args) ==
  [Index |-> idx, ID |-> id, Type |-> typ, Name |-> nm, Arguments |-> args]
Choice(content, reasoning, tcs) ==
  [Content |-> content, ReasoningContent |-> reasoning, ToolCalls |-> tcs]
Chunk(usage, choices) == [kind |-> "chunk", usage |-> usage, choices |-> choices]

\* Positions of tool calls and Usage snapshots in the streams explored.
Positions == 0..2
UsageA == [PromptTokens |-> 5, CompletionTokens |-> 0]
UsageB == [PromptTokens |-> 0, CompletionTokens |-> 7]

\* The lines a stream is made of: a line without the "data: " prefix, the
\* "[DONE]" sentinel, a data line that is not JSON, and chunks carrying text,
\* reasoning, a usage snapshot or tool-call fragments.
Lines ==
  { [kind |-> "other"], [kind |-> "done"], [kind |-> "bad"],
    Chunk(None, << Choice("Hel", "", << >>) >>),
    Chunk(None, << Choice("lo", "", << >>) >>),
    Chunk(None, << Choice("", "hm", << >>) >>),
    Chunk(None, << Choice("!", "?", << >>) >>),
    Chunk(UsageA, << >>),
    Chunk(UsageB, << >>),
    Chunk(None, << Choice("Hel", "", << >>), Choice("lo", "", << >>) >>),
    Chunk(None, << Choice("", "", << ToolCallDelta(1, "", "", "", "p"),
                                    ToolCallDelta(0, "", "", "", "q") >>) >>) }
  \cup { Chunk(None, << Choice("", "", << ToolCallDelta(idx, "abc", "function", "get_weather", "") >>) >>) :
           idx \in Positions }
  \cup { Chunk(None, << Choice("", "", << ToolCallDelta(idx, "", "", "", "{a") >>) >>) :
           idx \in Positions }
  \cup { Chunk(None, << Choice("", "", << ToolCallDelta(idx, "", "", "", "b}") >>) >>) :
           idx \in Positions }
  \cup { Chunk(None, << Choice("", "", << ToolCallDelta(idx, "xyz", "", "", "") >>) >>) :
           idx \in Positions }

RECURSIVE Streams(_)
Streams(n) ==
  IF n = 0 THEN { << >> }
  ELSE LET shorter == Streams(n - 1)
       IN shorter \cup
          { Append(st, l) : st \in { x \in shorter : Len(x) = n - 1 }, l \in Lines }

\* builder = &toolCallBuilder{}
NewBuilder == [id |-> "", typ |-> "", name |-> "", arguments |-> ""]

\* Faulty variant of Accumulate: every field is overwritten by the fragment.
AccumulateOverwrites(b, delta) ==
  [id |-> delta.ID,
   typ |-> delta.Type,
   name |-> delta.Name,
   arguments |-> delta.Arguments]

\* toolCallBuilder.Accumulate
Accumulate(b, delta) ==
  [id |-> IF delta.ID # "" THEN delta.ID ELSE b.id,
   typ |-> IF delta.Type # "" THEN delta.Type ELSE b.typ,
   name |-> IF delta.Name # "" THEN delta.Name ELSE b.name,
   arguments |-> b.arguments \o delta.Arguments]

\* toolCallBuilder.Build
Build(b) ==
  [ID |-> b.id, Type |-> b.typ,
   Function |-> [Name |-> b.name, Arguments |-> b.arguments]]

\* "for _, tc := range delta.ToolCalls": look the builder up by tc.Index,
\* create it when missing, Accumulate.
RECURSIVE RouteToolCalls(_, _)
RouteToolCalls(builders, tcs) ==
  IF tcs = << >> THEN builders
  ELSE LET tc == Head(tcs)
           builder == IF tc.Index \in DOMAIN builders
                      THEN builders[tc.Index] ELSE NewBuilder
           routed == [ x \in (DOMAIN builders) \cup {tc.Index} |->
                         IF x = tc.Index THEN Accumulate(builder, tc)
                         ELSE builders[x] ]
       IN RouteToolCalls(routed, Tail(tcs))

\* Faulty variant of AppendFragment: the fragment replaces the buffer.
AppendFragmentReplaces(buf, fragment) == IF fragment = "" THEN buf ELSE fragment

\* result.Content += delta.Content (and the same for ReasoningContent)
AppendFragment(buf, fragment) == buf \o fragment

\* Faulty variant of TakeUsage: the fields of the snapshots are merged.
TakeUsageMerged(old, chunk) ==
  IF chunk.usage = None THEN old
  ELSE IF old = None THEN chunk.usage
  ELSE [PromptTokens |-> IF chunk.usage.PromptTokens # 0
                         THEN chunk.usage.PromptTokens ELSE old.PromptTokens,
        CompletionTokens |-> IF chunk.usage.CompletionTokens # 0
                             THEN chunk.usage.CompletionTokens
                             ELSE old.CompletionTokens]

\* if chunk.Usage != nil { result.Usage = chunk.Usage }
TakeUsage(old, chunk) == IF chunk.usage # None THEN chunk.usage ELSE old

\* "for _, choice := range chunk.Choices", as a fold over the choices: the
\* accumulated Content, ReasoningContent and builders.
RECURSIVE ProcessChoices(_, _)
ProcessChoices(acc, choices) ==
  IF choices = << >> THEN acc
  ELSE ProcessChoices(
         [Content |-> AppendFragment(acc.Content, Head(choices).Content),
          ReasoningContent |-> AppendFragment(acc.ReasoningContent,
                                              Head(choices).ReasoningContent),
          builders |-> RouteToolCalls(acc.builders, Head(choices).ToolCalls)],
         Tail(choices))

\* parseSSEStream is called on a stream.
InitParse ==
  /\ RunnerIdle
  /\ SelectIdle
  /\ RestIdle
  /\ stream \in Streams(MaxLines)
  /\ ppc = "scan"
  /\ sp = 0
  /\ Chunks = << >>
  /\ Content = ""
  /\ ReasoningContent = ""
  /\ Usage = None
  /\ ToolCalls = << >>
  /\ toolCallBuilders = << >>
  /\ bi = 0
  /\ rawChunks = << >>
  /\ out = None
  /\ synthetic = None

\* The *StreamResult built so far.
Result ==
  [Content |-> Content, ReasoningContent |-> ReasoningContent,
   ToolCalls |-> ToolCalls, Usage |-> Usage, Chunks |-> Chunks]

\* Faulty variant of ScanLine: a chunk that fails to unmarshal returns the
\* message accumulated so far along with the error.
ScanLineKeepsPartial ==
  /\ ppc = "scan"
  /\ sp < Len(stream)
  /\ sp' = sp + 1
  /\ rawChunks' = Append(rawChunks, stream[sp + 1])
  /\ LET line == stream[sp + 1]
         acc == ProcessChoices([Content |-> Content,
                                ReasoningContent |-> ReasoningContent,
                                builders |-> toolCallBuilders],
                               line.choices)
     IN CASE line.kind = "other" ->
               UNCHANGED << ppc, Chunks, Content, ReasoningContent, Usage,
                            toolCallBuilders, out >>
          [] line.kind = "done" ->
               /\ ppc' = "build"
               /\ UNCHANGED << Chunks, Content, ReasoningContent, Usage,
                               toolCallBuilders, out >>
          [] line.kind = "bad" ->
               /\ ppc' = "error"
               /\ out' = [result |-> Result, raw |-> rawChunks',
                          err |-> "unmarshal chunk"]
               /\ UNCHANGED << Chunks, Content, ReasoningContent, Usage,
                               toolCallBuilders >>
          [] line.kind = "chunk" ->
               /\ Chunks' = Append(Chunks, line)
               /\ Usage' = TakeUsage(Usage, line)
               /\ Content' = acc.Content
               /\ ReasoningContent' = acc.ReasoningContent
               /\ toolCallBuilders' = acc.builders
               /\ UNCHANGED << ppc, out >>
  /\ UNCHANGED << runnerVars, selVars, restVars, stream, ToolCalls, bi, synthetic >>

\* Faulty variant of ScanLine: the payload "[DONE]" is skipped and the loop
\* goes on to the next line.
ScanLineIgnoresSentinel ==
  /\ ppc = "scan"
  /\ sp < Len(stream)
  /\ sp' = sp + 1
  /\ rawChunks' = Append(rawChunks, stream[sp + 1])
  /\ LET line == stream[sp + 1]
         acc == ProcessChoices([Content |-> Content,
                                ReasoningContent |-> ReasoningContent,
                                builders |-> toolCallBuilders],
                               line.choices)
     IN CASE line.kind = "other" ->
               UNCHANGED << ppc, Chunks, Content, ReasoningContent, Usage,
                            toolCallBuilders, out >>
          [] line.kind = "done" ->
               UNCHANGED << ppc, Chunks, Content, ReasoningContent, Usage,
                            toolCallBuilders, out >>
          [] line.kind = "bad" ->
               /\ ppc' = "error"
               /\ out' = [result |-> None, raw |-> rawChunks',
                          err |-> "unmarshal chunk"]
               /\ UNCHANGED << Chunks, Content, ReasoningContent, Usage,
                               toolCallBuilders >>
          [] line.kind = "chunk" ->
               /\ Chunks' = Append(Chunks, line)
               /\ Usage' = TakeUsage(Usage, line)
               /\ Content' = acc.Content
               /\ ReasoningContent' = acc.ReasoningContent
               /\ toolCallBuilders' = acc.builders
               /\ UNCHANGED << ppc, out >>
  /\ UNCHANGED << runnerVars, selVars, restVars, stream, ToolCalls, bi, synthetic >>

\* Faulty variant of ScanLine: the line is written to the raw log only after
\* the "data: " prefix check.
ScanLineLogsDataOnly ==
  /\ ppc = "scan"
  /\ sp < Len(stream)
  /\ sp' = sp + 1
  /\ rawChunks' = IF stream[sp + 1].kind = "other" THEN rawChunks
                ELSE Append(rawChunks, stream[sp + 1])
  /\ LET line == stream[sp + 1]
         acc == ProcessChoices([Content |-> Content,
                                ReasoningContent |-> ReasoningContent,
                                builders |-> toolCallBuilders],
                               line.choices)
     IN CASE line.kind = "other" ->
               UNCHANGED << ppc, Chunks, Content, ReasoningContent, Usage,
                            toolCallBuilders, out >>
          [] line.kind = "done" ->
               /\ ppc' = "build"
               /\ UNCHANGED << Chunks, Content, ReasoningContent, Usage,
                               toolCallBuilders, out >>
          [] line.kind = "bad" ->
               /\ ppc' = "error"
               /\ out' = [result |-> None, raw |-> rawChunks',
                          err |-> "unmarshal chunk"]
               /\ UNCHANGED << Chunks, Content, ReasoningContent, Usage,
                               toolCallBuilders >>
          [] line.kind = "chunk" ->
               /\ Chunks' = Append(Chunks, line)
               /\ Usage' = TakeUsage(Usage, line)
               /\ Content' = acc.Content
               /\ ReasoningContent' = acc.ReasoningContent
               /\ toolCallBuilders' = acc.builders
               /\ UNCHANGED << ppc, out >>
  /\ UNCHANGED << runnerVars, selVars, restVars, stream, ToolCalls, bi, synthetic >>

\* One iteration of "for scanner.Scan()".
ScanLine ==
  /\ ppc = "scan"
  /\ sp < Len(stream)
  /\ sp' = sp + 1
  /\ rawChunks' = Append(rawChunks, stream[sp + 1])
  /\ LET line == stream[sp + 1]
         acc == ProcessChoices([Content |-> Content,
                                ReasoningContent |-> ReasoningContent,
                                builders |-> toolCallBuilders],
                               line.choices)
     IN CASE line.kind = "other" ->
               UNCHANGED << ppc, Chunks, Content, ReasoningContent, Usage,
                            toolCallBuilders, out >>
          [] line.kind = "done" ->
               /\ ppc' = "build"
               /\ UNCHANGED << Chunks, Content, ReasoningContent, Usage,
                               toolCallBuilders, out >>
          [] line.kind = "bad" ->
               /\ ppc' = "error"
               /\ out' = [result |-> None, raw |-> rawChunks',
                          err |-> "unmarshal chunk"]
               /\ UNCHANGED << Chunks, Content, ReasoningContent, Usage,
                               toolCallBuilders >>
          [] line.kind = "chunk" ->
               /\ Chunks' = Append(Chunks, line)
               /\ Usage' = TakeUsage(Usage, line)
               /\ Content' = acc.Content
               /\ ReasoningContent' = acc.ReasoningContent
               /\ toolCallBuilders' = acc.builders
               /\ UNCHANGED << ppc, out >>
  /\ UNCHANGED << runnerVars, selVars, restVars, stream, ToolCalls, bi, synthetic >>

\* scanner.Scan returns false at the end of the input.
ScanEnd ==
  /\ ppc = "scan"
  /\ sp = Len(stream)
  /\ ppc' = "build"
  /\ UNCHANGED << runnerVars, selVars, restVars, stream, sp, Chunks, Content,
                  ReasoningContent, Usage, ToolCalls, toolCallBuilders, bi,
                  rawChunks, out, synthetic >>

\* Faulty variant of BuildStep: the builders are walked from the last
\* position down.
BuildStepDescending ==
  /\ ppc = "build"
  /\ bi < Cardinality(DOMAIN toolCallBuilders)
  /\ LET pos == Cardinality(DOMAIN toolCallBuilders) - 1 - bi
     IN ToolCalls' = IF pos \in DOMAIN toolCallBuilders
                     THEN Append(ToolCalls, Build(toolCallBuilders[pos]))
                     ELSE ToolCalls
  /\ bi' = bi + 1
  /\ UNCHANGED << runnerVars, selVars, restVars, stream, ppc, sp, Chunks, Content,
                  ReasoningContent, Usage, toolCallBuilders, rawChunks, out,
                  synthetic >>

\* The n-th smallest element (from 0) of a set of positions.
RECURSIVE NthPosition(_, _)
NthPosition(S, n) ==
  LET least == CHOOSE p \in S : \A q \in S : p <= q
  IN IF n = 0 THEN least ELSE NthPosition(S \ {least}, n - 1)

\* Faulty variant of BuildStep: every observed position is emitted, in
\* ascending order of position.
BuildStepAllPositions ==
  /\ ppc = "build"
  /\ bi < Cardinality(DOMAIN toolCallBuilders)
  /\ ToolCalls' = Append(ToolCalls,
                         Build(toolCallBuilders[NthPosition(DOMAIN toolCallBuilders, bi)]))
  /\ bi' = bi + 1
  /\ UNCHANGED << runnerVars, selVars, restVars, stream, ppc, sp, Chunks, Content,
                  ReasoningContent, Usage, toolCallBuilders, rawChunks, out,
                  synthetic >>

\* One iteration of "for i := 0; i < len(toolCallBuilders); i++".
BuildStep ==
  /\ ppc = "build"
  /\ bi < Cardinality(DOMAIN toolCallBuilders)
  /\ ToolCalls' = IF bi \in DOMAIN toolCallBuilders
                  THEN Append(ToolCalls, Build(toolCallBuilders[bi]))
                  ELSE ToolCalls
  /\ bi' = bi + 1
  /\ UNCHANGED << runnerVars, selVars, restVars, stream, ppc, sp, Chunks, Content,
                  ReasoningContent, Usage, toolCallBuilders, rawChunks, out,
                  synthetic >>

\* return result, rawChunks.Bytes(), nil
BuildDone ==
  /\ ppc = "build"
  /\ bi >= Cardinality(DOMAIN toolCallBuilders)
  /\ ppc' = "done"
  /\ out' = [result |-> Result, raw |-> rawChunks, err |-> "nil"]
  /\ UNCHANGED << runnerVars, selVars, restVars, stream, sp, Chunks, Content,
                  ReasoningContent, Usage, ToolCalls, toolCallBuilders, bi,
                  rawChunks, synthetic >>

\* json.Marshal of a field tagged omitempty: the set holding the value, empty
\* when the value is the zero value and the key is left out.
OmitEmpty(v, zero) == IF v = zero THEN {} ELSE {v}

\* json.Marshal of a ToolCallDelta, a ChunkChoice and a ChatCompletionChunk.
MarshalToolCallDelta(tc) ==
  [index |-> {tc.Index}, id |-> OmitEmpty(tc.ID, ""),
   type |-> OmitEmpty(tc.Type, ""),
   function |-> {[name |-> OmitEmpty(tc.Name, ""),
                  arguments |-> OmitEmpty(tc.Arguments, "")]}]
MarshalChoice(c) ==
  [delta |-> [content |-> OmitEmpty(c.Content, ""),
              reasoning_content |-> OmitEmpty(c.ReasoningContent, ""),
              tool_calls |-> OmitEmpty([ n \in 1..Len(c.ToolCalls) |->
                                          MarshalToolCallDelta(c.ToolCalls[n]) ],
                                       << >>)]]
MarshalChunk(chunk) ==
  [choices |-> [ n \in 1..Len(chunk.choices) |-> MarshalChoice(chunk.choices[n]) ]]

\* The JSONL written for replay: one marshalled chunk per line.
Jsonl(chunks) == [ n \in 1..Len(chunks) |-> MarshalChunk(chunks[n]) ]

\* A string field of a decoded object: its value when present, else dflt.
StringOr(field, dflt) == IF field = {} THEN dflt ELSE CHOOSE v \in field : TRUE

\* The tool-call loop of reconstructFromChunks over the tool_calls of one delta.
RECURSIVE MergeToolCalls(_, _)
MergeToolCalls(toolCalls, tcs) ==
  IF tcs = << >> THEN toolCalls
  ELSE LET tc == Head(tcs)
           idx == StringOr(tc.index, 0)
           existing == IF idx \in DOMAIN toolCalls THEN toolCalls[idx]
                       ELSE [id |-> {}, type |-> "function",
                             function |-> [name |-> "", arguments |-> ""]]
           fn == StringOr(tc.function, [name |-> {}, arguments |-> {}])
           merged ==
             [id |-> IF StringOr(tc.id, "") # "" THEN tc.id ELSE existing.id,
              type |-> IF StringOr(tc.type, "") # "" THEN StringOr(tc.type, "")
                       ELSE existing.type,
              function |->
                [name |-> IF StringOr(fn.name, "") # "" THEN StringOr(fn.name, "")
                          ELSE existing.function.name,
                 arguments |-> existing.function.arguments \o
                               StringOr(fn.arguments, "")]]
       IN MergeToolCalls([ x \in (DOMAIN toolCalls) \cup {idx} |->
                             IF x = idx THEN merged ELSE toolCalls[x] ],
                         Tail(tcs))

\* The scan loop of reconstructFromChunks: content, reasoning content and the
\* tool-call map after the lines of the JSONL.
RECURSIVE ScanJsonl(_, _)
ScanJsonl(acc, jsonl) ==
  IF jsonl = << >> THEN acc
  ELSE LET chunk == Head(jsonl)
       IN IF Len(chunk.choices) = 0 THEN ScanJsonl(acc, Tail(jsonl))
          ELSE LET delta == chunk.choices[1].delta
               IN ScanJsonl(
                    [content |-> acc.content \o StringOr(delta.content, ""),
                     reasoningContent |-> acc.reasoningContent \o
                                          StringOr(delta.reasoning_content, ""),
                     toolCalls |-> MergeToolCalls(acc.toolCalls,
                                                  StringOr(delta.tool_calls, << >>))],
                    Tail(jsonl))

\* "for i := 0; i < len(toolCalls); i++": the tool calls of the message.
RECURSIVE MessageToolCalls(_, _)
MessageToolCalls(toolCalls, n) ==
  IF n >= Cardinality(DOMAIN toolCalls) THEN << >>
  ELSE (IF n \in DOMAIN toolCalls THEN << toolCalls[n] >> ELSE << >>)
       \o MessageToolCalls(toolCalls, n + 1)

\* reconstructFromChunks: the message of the synthetic response.
reconstructFromChunks(jsonl) ==
  LET acc == ScanJsonl([content |-> "", reasoningContent |-> "",
                        toolCalls |-> << >>], jsonl)
  IN [role |-> "assistant",
      content |-> OmitEmpty(acc.content, ""),
      reasoning_content |-> OmitEmpty(acc.reasoningContent, ""),
      tool_calls |-> OmitEmpty(MessageToolCalls(acc.toolCalls, 0), << >>)]

\* ChatCompletionStream hands the chunks of a successful reconstruction to the
\* logger, whose LogStreamChunks rebuilds the response for the report.
LogStreamChunks ==
  /\ ppc = "done"
  /\ synthetic = None
  /\ Len(out.result.Chunks) > 0
  /\ synthetic' = reconstructFromChunks(Jsonl(out.result.Chunks))
  /\ UNCHANGED << runnerVars, selVars, restVars, stream, ppc, sp, Chunks, Content,
                  ReasoningContent, Usage, ToolCalls, toolCallBuilders, bi,
                  rawChunks, out >>

NextParse == ScanLine \/ ScanEnd \/ BuildStep \/ BuildDone \/ LogStreamChunks

SpecParse == InitParse /\ [][NextParse]_vars

\* ------------------------------------------------ a case body and the client

\* const maxIterations = 25 and const minToolCallRoundsIncident = 3
maxIterations == 25
minToolCallRoundsIncident == 3

\* The status codes and the bodies a server answers with: a message with tool
\* calls, a final answer that passes the content checks, one that is too
\* short, one that misses the keywords, a blank one, a response without
\* choices, and bytes that do not decode.
Statuses == {200, 404, 500}
Bodies == {"tool_calls", "answer", "short", "off_topic", "blank", "no_choices",
           "garbage"}

Failed(message) == [Passed |-> FALSE, Message |-> message]

\* fmt.Errorf("unexpected status %d: %s", resp.StatusCode, string(body))
UnexpectedStatus(r) ==
  [error |-> "unexpected status", status |-> r.status, body |-> r.body]

\* Message: fmt.Sprintf("iteration %d: request failed: %s", i+1, err.Error())
RequestFailed(n, err) ==
  Failed([text |-> "request failed", iteration |-> n + 1, err |-> err])

\* validateFinalResponse
validateFinalResponse(content, rounds) ==
  IF rounds < minToolCallRoundsIncident THEN Failed("too few tool call rounds")
  ELSE IF content = "blank" THEN Failed("final response is empty")
  ELSE IF content = "short" THEN Failed("final response too short")
  ELSE IF content = "off_topic" THEN Failed("final response misses keywords")
  ELSE [Passed |-> TRUE, Message |-> ""]

InitCase ==
  /\ RunnerIdle
  /\ SelectIdle
  /\ ParserIdle
  /\ PairIdle
  /\ eStreaming \in BOOLEAN
  /\ cpc = "loop"
  /\ iteration = 0
  /\ toolCallRounds = 0
  /\ requests = 0
  /\ decodes = 0
  /\ resp = None
  /\ ret = None
  /\ caseResult = None

\* c.httpClient.Do(httpReq): the request goes out; the transport fails or the
\* server answers with a status and a body.
Do ==
  /\ cpc = "loop"
  /\ iteration < maxIterations
  /\ requests' = requests + 1
  /\ \/ /\ resp' = None
        /\ ret' = [err |-> [error |-> "do request"]]
        /\ cpc' = "returned"
     \/ /\ resp' \in [status : Statuses, body : Bodies]
        /\ ret' = None
        /\ cpc' = "status"
  /\ UNCHANGED << runnerVars, selVars, sseVars, recons, eStreaming, iteration,
                  toolCallRounds, decodes, caseResult >>

\* Faulty variant of CheckStatus: the body is decoded whatever the status.
CheckStatusDecodesAnyway ==
  /\ cpc = "status"
  /\ cpc' = "decode"
  /\ UNCHANGED << runnerVars, selVars, sseVars, recons, eStreaming, iteration,
                  toolCallRounds, requests, decodes, resp, ret, caseResult >>

\* if resp.StatusCode != http.StatusOK { return nil, fmt.Errorf(...) }
CheckStatus ==
  /\ cpc = "status"
  /\ IF resp.status # 200
     THEN /\ ret' = [err |-> UnexpectedStatus(resp)]
          /\ cpc' = "returned"
     ELSE /\ cpc' = "decode"
          /\ UNCHANGED ret
  /\ UNCHANGED << runnerVars, selVars, sseVars, recons, eStreaming, iteration,
                  toolCallRounds, requests, decodes, resp, caseResult >>

\* The message a decoded body carries.
Message(body) ==
  [choices |-> IF body = "no_choices" THEN 0 ELSE 1,
   toolCalls |-> IF body = "tool_calls" THEN 1 ELSE 0,
   content |-> IF body \in {"tool_calls", "no_choices"} THEN "blank" ELSE body]

\* json.Unmarshal(respBody, &result) of ChatCompletion, parseSSEStream(resp.Body)
\* of ChatCompletionStream.
Decode ==
  /\ cpc = "decode"
  /\ decodes' = decodes + 1
  /\ ret' = IF resp.body = "garbage"
            THEN [err |-> [error |-> IF eStreaming THEN "unmarshal chunk"
                                     ELSE "unmarshal response"]]
            ELSE [err |-> None, val |-> Message(resp.body)]
  /\ cpc' = "returned"
  /\ UNCHANGED << runnerVars, selVars, sseVars, recons, eStreaming, iteration,
                  toolCallRounds, requests, resp, caseResult >>

\* The rest of the loop body of Run once the client call has returned.
Handle ==
  /\ cpc = "returned"
  /\ caseResult = None
  /\ IF ret.err # None
     THEN /\ caseResult' = RequestFailed(iteration, ret.err)
          /\ UNCHANGED << cpc, iteration, toolCallRounds >>
     ELSE IF ~eStreaming /\ ret.val.choices = 0
     THEN /\ caseResult' = Failed([text |-> "no choices in response",
                                   iteration |-> iteration + 1])
          /\ UNCHANGED << cpc, iteration, toolCallRounds >>
     ELSE IF ret.val.toolCalls = 0
     THEN /\ caseResult' = validateFinalResponse(ret.val.content, toolCallRounds)
          /\ UNCHANGED << cpc, iteration, toolCallRounds >>
     ELSE /\ toolCallRounds' = toolCallRounds + 1
          /\ iteration' = iteration + 1
          /\ cpc' = "loop"
          /\ UNCHANGED caseResult
  /\ UNCHANGED << runnerVars, selVars, sseVars, recons, eStreaming, requests, decodes,
                  resp, ret >>

\* Faulty variant of LoopEnd: running out of iterations counts as a pass.
LoopEndPasses ==
  /\ cpc = "loop"
  /\ iteration >= maxIterations
  /\ caseResult' = [Passed |-> TRUE, Message |-> ""]
  /\ cpc' = "returned"
  /\ UNCHANGED << runnerVars, selVars, sseVars, recons, eStreaming, iteration,
                  toolCallRounds, requests, decodes, resp, ret >>

\* The loop ends after maxIterations rounds of tool calls.
LoopEnd ==
  /\ cpc = "loop"
  /\ iteration >= maxIterations
  /\ caseResult' = Failed("reached max iterations")
  /\ cpc' = "returned"
  /\ UNCHANGED << runnerVars, selVars, sseVars, recons, eStreaming, iteration,
                  toolCallRounds, requests, decodes, resp, ret >>

NextCase == Do \/ CheckStatus \/ Decode \/ Handle \/ LoopEnd

\* The case body is one goroutine that keeps running, and every request it
\* sends is answered or fails.
SpecCase == InitCase /\ [][NextCase]_vars /\ WF_vars(NextCase)

\* ------------------------------------------- several calls of parseSSEStream

MaxPairLines == 2
Reconstructions == 1..2

\* The lines of the streams that are reconstructed side by side.
PairLines ==
  { [kind |-> "done"], [kind |-> "bad"],
    Chunk(None, << Choice("Hel", "", << >>) >>),
    Chunk(None, << Choice("", "", << ToolCallDelta(0, "abc", "function", "get_weather", "") >>) >>),
    Chunk(None, << Choice("", "", << ToolCallDelta(1, "xyz", "", "", "") >>) >>),
    Chunk(UsageA, << Choice("", "hm", << ToolCallDelta(1, "", "", "", "p"),
                                        ToolCallDelta(0, "", "", "", "q") >>) >>) }

RECURSIVE PairStreams(_)
PairStreams(n) ==
  IF n = 0 THEN { << >> }
  ELSE PairStreams(n - 1) \cup
       { Append(st, l) : st \in { x \in PairStreams(n - 1) : Len(x) = n - 1 },
                         l \in PairLines }

\* The locals of parseSSEStream at its first statement, reading the lines st.
Locals(st) ==
  [stream |-> st, ppc |-> "scan", sp |-> 0, Chunks |-> << >>, Content |-> "",
   ReasoningContent |-> "", Usage |-> None, ToolCalls |-> << >>,
   toolCallBuilders |-> << >>, bi |-> 0, rawChunks |-> << >>, out |-> None]

Returned(l) == l.ppc \in {"done", "error"}

\* Faulty variant of Advance: the final loop ranges over the map, whose
\* iteration order is not fixed.
AdvanceMapOrder(l) ==
  IF l.ppc = "scan" /\ l.sp < Len(l.stream)
  THEN LET line == l.stream[l.sp + 1]
           raw == Append(l.rawChunks, line)
           read == [l EXCEPT !.sp = l.sp + 1, !.rawChunks = raw]
           acc == ProcessChoices([Content |-> l.Content,
                                  ReasoningContent |-> l.ReasoningContent,
                                  builders |-> l.toolCallBuilders],
                                 line.choices)
       IN CASE line.kind = "other" -> { read }
            [] line.kind = "done" -> { [read EXCEPT !.ppc = "build"] }
            [] line.kind = "bad" ->
                 { [read EXCEPT !.ppc = "error",
                                !.out = [result |-> None, raw |-> raw,
                                         err |-> "unmarshal chunk"]] }
            [] line.kind = "chunk" ->
                 { [read EXCEPT !.Chunks = Append(l.Chunks, line),
                                !.Usage = TakeUsage(l.Usage, line),
                                !.Content = acc.Content,
                                !.ReasoningContent = acc.ReasoningContent,
                                !.toolCallBuilders = acc.builders] }
  ELSE IF l.ppc = "scan"
  THEN { [l EXCEPT !.ppc = "build"] }
  ELSE IF l.ppc = "build" /\ l.bi < Cardinality(DOMAIN l.toolCallBuilders)
  THEN { [l EXCEPT !.ToolCalls = Append(l.ToolCalls, Build(l.toolCallBuilders[p])),
                   !.bi = l.bi + 1] : p \in DOMAIN l.toolCallBuilders }
  ELSE IF l.ppc = "build"
  THEN { [l EXCEPT !.ppc = "done",
                   !.out = [result |-> [Content |-> l.Content,
                                        ReasoningContent |-> l.ReasoningContent,
                                        ToolCalls |-> l.ToolCalls,
                                        Usage |-> l.Usage, Chunks |-> l.Chunks],
                            raw |-> l.rawChunks, err |-> "nil"]] }
  ELSE { l }

\* One step of parseSSEStream on its locals l: the set of locals it can be
\* left with (one iteration of the scan loop, the end of the input, one
\* iteration of the final loop, or the return).
Advance(l) ==
  IF l.ppc = "scan" /\ l.sp < Len(l.stream)
  THEN LET line == l.stream[l.sp + 1]
           raw == Append(l.rawChunks, line)
           read == [l EXCEPT !.sp = l.sp + 1, !.rawChunks = raw]
           acc == ProcessChoices([Content |-> l.Content,
                                  ReasoningContent |-> l.ReasoningContent,
                                  builders |-> l.toolCallBuilders],
                                 line.choices)
       IN CASE line.kind = "other" -> { read }
            [] line.kind = "done" -> { [read EXCEPT !.ppc = "build"] }
            [] line.kind = "bad" ->
                 { [read EXCEPT !.ppc = "error",
                                !.out = [result |-> None, raw |-> raw,
                                         err |-> "unmarshal chunk"]] }
            [] line.kind = "chunk" ->
                 { [read EXCEPT !.Chunks = Append(l.Chunks, line),
                                !.Usage = TakeUsage(l.Usage, line),
                                !.Content = acc.Content,
                                !.ReasoningContent = acc.ReasoningContent,
                                !.toolCallBuilders = acc.builders] }
  ELSE IF l.ppc = "scan"
  THEN { [l EXCEPT !.ppc = "build"] }
  ELSE IF l.ppc = "build" /\ l.bi < Cardinality(DOMAIN l.toolCallBuilders)
  THEN { [l EXCEPT !.ToolCalls = IF l.bi \in DOMAIN l.toolCallBuilders
                                 THEN Append(l.ToolCalls,
                                             Build(l.toolCallBuilders[l.bi]))
                                 ELSE l.ToolCalls,
                   !.bi = l.bi + 1] }
  ELSE IF l.ppc = "build"
  THEN { [l EXCEPT !.ppc = "done",
                   !.out = [result |-> [Content |-> l.Content,
                                        ReasoningContent |-> l.ReasoningContent,
                                        ToolCalls |-> l.ToolCalls,
                                        Usage |-> l.Usage, Chunks |-> l.Chunks],
                            raw |-> l.rawChunks, err |-> "nil"]] }
  ELSE { l }

InitPair ==
  /\ RunnerIdle
  /\ SelectIdle
  /\ ParserIdle
  /\ CaseIdle
  /\ \E a, b \in PairStreams(MaxPairLines) :
       recons = [ r \in Reconstructions |-> Locals(IF r = 1 THEN a ELSE b) ]

\* Faulty variant of Reconstruct: the builders live in one map shared by the
\* calls.
ReconstructSharedBuilders(r) ==
  /\ ~Returned(recons[r])
  /\ \E next \in Advance(recons[r]) :
       recons' = [ q \in Reconstructions |->
                     IF q = r THEN next
                     ELSE [recons[q] EXCEPT !.toolCallBuilders = next.toolCallBuilders] ]
  /\ UNCHANGED << runnerVars, selVars, sseVars, caseVars >>

\* The worker running reconstruction r takes one step of parseSSEStream.
Reconstruct(r) ==
  /\ ~Returned(recons[r])
  /\ \E next \in Advance(recons[r]) : recons' = [recons EXCEPT ![r] = next]
  /\ UNCHANGED << runnerVars, selVars, sseVars, caseVars >>

NextPair == \E r \in Reconstructions : Reconstruct(r)

\* Every worker that reads a stream keeps running.
SpecPair ==
  InitPair /\ [][NextPair]_vars /\ \A r \in Reconstructions : WF_vars(Reconstruct(r))

\* ================================================================== claims
\* What the claims expect, written from their text and not from the model.

\* The (case, mode) jobs of a run: one per selected case in a single mode, the
\* blocking job and then the streaming job of each case in "both" mode or with
\* the mode unset.
RECURSIVE ClaimJobs(_, _)
ClaimJobs(es, mode) ==
  IF es = <<>> THEN <<>>
  ELSE (CASE mode = "blocking" -> << [eval |-> Head(es), streaming |-> FALSE] >>
          [] mode = "streaming" -> << [eval |-> Head(es), streaming |-> TRUE] >>
          [] OTHER -> << [eval |-> Head(es), streaming |-> FALSE],
                         [eval |-> Head(es), streaming |-> TRUE] >>)
       \o ClaimJobs(Tail(es), mode)

TheJobs == ClaimJobs(evals, config.Mode)

ClaimName(j) ==
  IF j.streaming THEN Registry[j.eval].name \o " (streaming)"
  ELSE Registry[j.eval].name \o " (blocking)"

Occurrences(seq, x) == Cardinality({ n \in 1..Len(seq) : seq[n] = x })
NamedResults(seq, nm) == { n \in 1..Len(seq) : seq[n].Name = nm }
Executing == { t \in Threads : InBody(t) }

\* C1: in a parallel run every job sent to the job queue has its case body
\* invoked exactly once and contributes exactly one Result to the list Run
\* returns; no job is run twice at any time.
C1_ExactlyOnce ==
  (~Sequential) =>
    /\ \A j \in AllJobs : invoked[j] <= Occurrences(TheJobs, j)
    /\ Done => \A j \in AllJobs :
                 /\ invoked[j] = Occurrences(TheJobs, j)
                 /\ Cardinality(NamedResults(returned, ClaimName(j)))
                      = Occurrences(TheJobs, j)

C1_Witness ==
  /\ Done
  /\ ~Sequential
  /\ Len(TheJobs) = 4
  /\ Len(returned) = 4
  /\ \E n \in 1..4 : ~returned[n].Passed

\* C2: whenever the body of a mode-switching case is executing, the delivery
\* it chose from its streaming flag is the mode of its job.
C2_FlagMatchesJob ==
  \A t \in Threads :
    (InBody(t) /\ Registry[job[t].eval].sme) => ran[t] = job[t].streaming

\* C3: N cases in "both" mode (or with the mode unset) give exactly 2N Results
\* with pairwise distinct names, one "<case> (blocking)" and one
\* "<case> (streaming)" per case, each with the case's category, for every
\* worker count.
C3_TwoPerCase ==
  (Done /\ config.Mode \in {"", "both"}) =>
    /\ Len(returned) = 2 * Len(evals)
    /\ \A a, b \in 1..Len(returned) : a # b => returned[a].Name # returned[b].Name
    /\ \A n \in 1..Len(evals) :
         \A suffix \in {" (blocking)", " (streaming)"} :
           /\ Cardinality(NamedResults(returned, Registry[evals[n]].name \o suffix)) = 1
           /\ \A m \in NamedResults(returned, Registry[evals[n]].name \o suffix) :
                returned[m].Category = Registry[evals[n]].category

C3_Witness ==
  /\ Done
  /\ config.Mode = ""
  /\ config.Jobs = 2
  /\ Len(evals) = 2
  /\ Len(returned) = 4

\* The kinds of the entries of a log buffer, in order.
Kinds(buf) == [ n \in 1..Len(buf) |-> buf[n].kind ]
OwnEntries(buf, nm) == \A n \in 1..Len(buf) : buf[n].by = nm
WritesOf(nm) == { n \in 1..Len(fileWrites) : fileWrites[n].file = nm }

\* C4: with a logger, the log context started for a job holds that job's
\* entries and no other job's, and the log written under a job's name holds
\* exactly that job's entries: start, request, response, result.
C4_LogIsolation ==
  config.Logger =>
    /\ current # None => OwnEntries(current.buf, current.name)
    /\ \A n \in 1..Len(fileWrites) :
         OwnEntries(fileWrites[n].buf, fileWrites[n].file)
    /\ Done => \A n \in 1..Len(TheJobs) :
                 \E m \in WritesOf(ClaimName(TheJobs[n])) :
                   Kinds(fileWrites[m].buf) = << "start", "request", "response", "result" >>

\* C5: with a logger, when runSingleEval hands a Result on, the job's log has
\* been written exactly once, by that job, and its last entry is the job's
\* result.
C5_ClosedOnceAfterResult ==
  config.Logger =>
    \A t \in Threads :
      pc[t] = "ret" =>
        /\ Cardinality(WritesOf(name[t])) = 1
        /\ \A m \in WritesOf(name[t]) :
             /\ fileWrites[m].by = name[t]
             /\ fileWrites[m].buf # << >>
             /\ fileWrites[m].buf[Len(fileWrites[m].buf)]
                  = Entry("result", name[t],
                          IF result[t].Passed THEN "PASSED" ELSE "FAILED")

\* Both hold of every sequential run.
C4_SequentialOnly == Sequential => C4_LogIsolation
C5_SequentialOnly == Sequential => C5_ClosedOnceAfterResult

\* C6: the results list has one writer. Every change of the list appends one
\* Result; in a parallel run it is the aggregator appending the Result it
\* received while no other goroutine moves, in a sequential run it is the
\* sequential loop; Run returns the list only after the aggregator is done,
\* and nothing is written after that.
C6_AppendStep ==
  results' # results =>
    /\ Len(results') = Len(results) + 1
    /\ SubSeq(results', 1, Len(results)) = results
    /\ Len(console') = Len(console) + 1
    /\ console'[Len(console')].text = results'[Len(results')].Name
    /\ IF Sequential
       THEN pc[0] = "seq_print" /\ apc = "none"
       ELSE /\ apc = "handle"
            /\ results'[Len(results')] = acur
            /\ pc' = pc

C6_ReturnAfterAggregator ==
  Done => /\ returned = results
          /\ (~Sequential) => (apc = "exited" /\ resultClosed
                               /\ \A w \in Workers(config.Jobs) : pc[w] = "exited")

C6_SingleWriter == [][C6_AppendStep]_vars /\ []C6_ReturnAfterAggregator

C6_Witness ==
  /\ Done
  /\ ~Sequential
  /\ apc = "exited"
  /\ Len(returned) = 4

\* C7: at most Jobs case bodies execute at the same time in a parallel run,
\* and at most one when Jobs <= 1.
C7_BoundedParallelism ==
  Cardinality(Executing) <= (IF config.Jobs <= 1 THEN 1 ELSE config.Jobs)

C7_Witness ==
  /\ config.Jobs >= 2
  /\ Cardinality(Executing) = config.Jobs

\* Thread t is inside runSingleEval; the jobs of earlier cases than j's.
InRunSingleEval(t) ==
  pc[t] \in {"set", "start", "call", "http", "logreq", "logresp", "logresult", "end"}
NotYetInvoked(t) == pc[t] \in {"set", "start", "call"}
Position(j) == CHOOSE n \in 1..Len(TheJobs) : TheJobs[n] = j
ResultLines == SelectSeq(console, LAMBDA l : l.kind # "category")
EarlierCases(j) == { m \in 1..Len(TheJobs) : m < Position(j) /\ TheJobs[m].eval # j.eval }

C8_ExecutionOrder ==
  (Sequential /\ InRunSingleEval(0)) =>
    /\ \E n \in 1..Len(TheJobs) : TheJobs[n] = job[0]
    /\ \A t \in Threads \ {0} : pc[t] = "none"
    /\ \A m \in 1..Len(TheJobs) :
         invoked[TheJobs[m]] =
           (IF m < Position(job[0]) \/ (m = Position(job[0]) /\ ~NotYetInvoked(0))
            THEN 1 ELSE 0)

C8_ReturnedOrder ==
  (Sequential /\ Done) =>
    /\ Len(returned) = Len(TheJobs)
    /\ \A n \in 1..Len(returned) : returned[n].Name = ClaimName(TheJobs[n])

\* C8 (as claimed): in a sequential run the jobs execute one at a time in
\* registration order, blocking before streaming; a job starts only after the
\* previous job's Result was printed and recorded; the returned list is in
\* execution order.
C8_StartsAfterPreviousRecorded ==
  /\ C8_ExecutionOrder
  /\ C8_ReturnedOrder
  /\ (Sequential /\ InRunSingleEval(0)) =>
       /\ Len(results) = Position(job[0]) - 1
       /\ Len(ResultLines) = Position(job[0]) - 1

\* C8 (amended): as above, but a job starts once the Results of all jobs of
\* the earlier cases are printed and recorded; the Results of the jobs of one
\* case are printed and recorded together after the case's last job.
C8_StartsAfterEarlierCasesRecorded ==
  /\ C8_ExecutionOrder
  /\ C8_ReturnedOrder
  /\ (Sequential /\ InRunSingleEval(0)) =>
       /\ Len(results) = Cardinality(EarlierCases(job[0]))
       /\ Len(ResultLines) = Cardinality(EarlierCases(job[0]))
       /\ \A n \in 1..Len(results) : results[n].Name = ClaimName(TheJobs[n])

C8_Witness ==
  /\ Sequential
  /\ config.Mode = "both"
  /\ pc[0] = "call"
  /\ job[0].streaming
  /\ i = 2
  /\ Len(results) = 2

\* The delivery a job's body uses when it runs in its own mode, and the Results
\* of a run in which every body does.
ModeRun(j) == IF Registry[j.eval].sme THEN j.streaming ELSE Registry[j.eval].fixed
SequentialResults ==
  { [Name |-> ClaimName(TheJobs[n]),
     Category |-> Registry[TheJobs[n].eval].category,
     Passed |-> server[ModeRun(TheJobs[n])],
     Message |-> IF server[ModeRun(TheJobs[n])] THEN ""
                 ELSE "request failed: unexpected status"] : n \in 1..Len(TheJobs) }
ResultSet(seq) == { seq[n] : n \in 1..Len(seq) }

\* C9: the set of (name, category, passed, message) Run returns is the set a
\* sequential run returns for the same cases, mode and server, whatever the
\* worker count and the interleaving. Each body's outcome depends only on the
\* case and the mode it runs in.
C9_SameResultSet == Done => ResultSet(returned) = SequentialResults

\* SequentialResults is what runSequential returns.
C9_SequentialReference == Sequential => C9_SameResultSet

\* C10: a failed Result never aborts the run: when Run returns, every selected
\* job was executed once and has its own Result; a Result is failed exactly
\* when its body's request failed, and it carries the error.
C10_FailureNeverAborts ==
  /\ \A t \in Threads :
       pc[t] = "ret" => /\ result[t].Passed = server[ran[t]]
                        /\ result[t].Passed \/ result[t].Message # ""
  /\ Done =>
       /\ Len(returned) = Len(TheJobs)
       /\ \A n \in 1..Len(TheJobs) :
            /\ invoked[TheJobs[n]] = 1
            /\ Cardinality(NamedResults(returned, ClaimName(TheJobs[n]))) = 1
       /\ \A m \in 1..Len(returned) :
            /\ returned[m].Passed => \E b \in BOOLEAN : server[b]
            /\ ~returned[m].Passed => \E b \in BOOLEAN : ~server[b]

C10_Witness ==
  /\ Done
  /\ Sequential
  /\ Len(returned) = 4
  /\ returned[1].Passed
  /\ ~returned[2].Passed
  /\ returned[3].Name = "agentic_tool_call (blocking)"

\* The jobs submitted after job j in a sequential run.
JobsAfter(j) == { TheJobs[m] : m \in { n \in 1..Len(TheJobs) : n > Position(j) } }
Recorded(j) == NamedResults(results, ClaimName(j)) # {}

\* C11: a hung case blocks only itself in a parallel run: every other job of
\* the run is eventually executed and its Result eventually reaches the
\* aggregator; in a sequential run no job after the hung one ever starts.
C11_HungBlocksOnlyItself ==
  /\ \A j \in AllJobs :
       ((~Sequential) /\ hung # None /\ j # hung
          /\ (\E n \in 1..Len(TheJobs) : TheJobs[n] = j))
         ~> (invoked[j] = 1 /\ Recorded(j))
  /\ []((Sequential /\ hung # None) =>
          /\ \A j \in JobsAfter(hung) : invoked[j] = 0 /\ ~Recorded(j)
          /\ ~Done)

C11_Witness ==
  /\ ~Sequential
  /\ hung # None
  /\ \E w \in Workers(config.Jobs) : pc[w] = "http" /\ job[w] = hung
  /\ Len(TheJobs) = 4
  /\ Len(results) = 3
  /\ \A n \in 1..4 : TheJobs[n] # hung => Recorded(TheJobs[n])

\* The Results whose name is that of one of the jobs of eval e.
ResultsOfCase(seq, e) ==
  { n \in 1..Len(seq) : seq[n].Name \in { Registry[e].name \o " (blocking)",
                                          Registry[e].name \o " (streaming)" } }

\* C12: a case that does not implement SetStreaming/Streaming is run in a
\* single mode only: under mode "both" (or the mode unset) it is invoked once
\* and yields one Result.
C12_SingleModeWithoutCapability ==
  (Done /\ config.Mode \in {"", "both"}) =>
    \A n \in 1..Len(evals) :
      ~Registry[evals[n]].sme =>
        /\ Cardinality(ResultsOfCase(returned, evals[n])) = 1
        /\ invoked[[eval |-> evals[n], streaming |-> FALSE]]
             + invoked[[eval |-> evals[n], streaming |-> TRUE]] = 1

\* C15: once every selected job has completed, runEvals reports exit status 1
\* if and only if at least one returned Result has Passed = false, and 0
\* otherwise.
C15_ExitStatus ==
  exitCode # None =>
    /\ Len(returned) = Len(TheJobs)
    /\ \A n \in 1..Len(TheJobs) : invoked[TheJobs[n]] = 1
    /\ exitCode.code \in {0, 1}
    /\ (exitCode.code = 1) <=> (\E n \in 1..Len(returned) : ~returned[n].Passed)

C15_Witness ==
  /\ exitCode = [code |-> 1]
  /\ Len(returned) = 4
  /\ \E n \in 1..4 : returned[n].Passed
  /\ \E n \in 1..4 : ~returned[n].Passed

\* The Result of job j when its body used delivery d against the server:
\* nothing in it depends on a logger being configured.
OutcomeOf(j, d) ==
  [Name |-> ClaimName(j),
   Category |-> Registry[j.eval].category,
   Passed |-> server[d],
   Message |-> IF server[d] THEN "" ELSE "request failed: unexpected status"]

\* The steps that exist only when a logger is configured change nothing but
\* the logger; the step that logs the response hands the body's Result on.
C16_LoggingStep ==
  \A t \in Threads :
    (pc[t] \in {"start", "logreq", "logresp", "logresult", "end"} /\ pc'[t] # pc[t]) =>
      /\ UNCHANGED << streaming, job, name, ran, modeResults, results, console,
                      returned, invoked, exitCode >>
      /\ IF pc[t] = "logresp"
         THEN result' = [result EXCEPT ![t] = OutcomeOf(job[t], ran[t])]
         ELSE result' = result

C16_ResultIndependent ==
  /\ \A t \in Threads : pc[t] = "ret" => result[t] = OutcomeOf(job[t], ran[t])
  /\ (Done /\ Sequential) =>
       returned = [ n \in 1..Len(TheJobs) |-> OutcomeOf(TheJobs[n], ModeRun(TheJobs[n])) ]

Rank(c) == CASE c = "standard" -> 1 [] c = "reasoning" -> 2 [] c = "interleaved" -> 3
TierSelects(c, t) == t = "" \/ Rank(c) <= Rank(t)
IsSelected(n) == \E m \in 1..Len(selected) : selected[m] = n
ClassesOf(reg) == [ n \in 1..Len(reg) |-> reg[n].class ]

\* C13: a case of tier c is selected under requested tier t exactly when
\* c <= t in the order standard < reasoning < interleaved, and under every
\* tier-less request; cases A:standard, B:reasoning, C:interleaved give {A},
\* {A,B}, {A,B,C} and, with no tier, {A,B,C}.
C13_TierInclusion ==
  /\ \A n \in 1..Len(registered) :
       (n < selIdx /\ selConfig.Filter = << >>
          /\ (selConfig.All \/ ~registered[n].disabled))
         => (IsSelected(n) <=> TierSelects(registered[n].class, selConfig.Class))
  /\ (selPc = "done" /\ selConfig.Filter = << >>
        /\ ClassesOf(registered) = << "standard", "reasoning", "interleaved" >>
        /\ \A n \in 1..3 : ~registered[n].disabled)
       => selected = (CASE selConfig.Class = "standard" -> << 1 >>
                        [] selConfig.Class = "reasoning" -> << 1, 2 >>
                        [] OTHER -> << 1, 2, 3 >>)

C13_Witness ==
  /\ selPc = "done"
  /\ ClassesOf(registered) = << "standard", "reasoning", "interleaved" >>
  /\ selConfig.Class = "interleaved"
  /\ selected = << 1, 2, 3 >>

\* sub occurs in str: str = prefix \o sub \o suffix.
IsSubstring(sub, str) ==
  \E a \in 0..Len(str) : \E b \in a..Len(str) : SubSeq(str, a + 1, b) = sub
ShouldSelect(n) ==
  /\ selConfig.Filter = << >> \/ IsSubstring(selConfig.Filter, registered[n].name)
  /\ TierSelects(registered[n].class, selConfig.Class)
  /\ ~registered[n].disabled \/ selConfig.All

\* C14: a registered case is selected if and only if the name filter is empty
\* or a substring of its name, its tier matches, and it is not
\* default-disabled or "all" is set; the selected list is in registration
\* order and holds each case at most once.
C14_SelectionIsConjunction ==
  /\ \A n \in 1..Len(registered) :
       IsSelected(n) <=> (n < selIdx /\ ShouldSelect(n))
  /\ \A a, b \in 1..Len(selected) : a < b => selected[a] < selected[b]
  /\ selPc = "done" => selIdx = Len(registered) + 1

C14_Witness ==
  /\ selPc = "done"
  /\ selConfig.All
  /\ selConfig.Filter = << "b" >>
  /\ Len(registered) = 3
  /\ registered[1].name = << "a" >>
  /\ registered[3].disabled
  /\ selected = << 2, 3 >>

\* ---- the stream as the claims describe it
\* The first line that ends parsing (the sentinel, or a line that fails to
\* parse), or one past the end of the input.
StopAt ==
  IF \E n \in 1..Len(stream) : stream[n].kind \in {"done", "bad"}
  THEN CHOOSE n \in 1..Len(stream) :
         /\ stream[n].kind \in {"done", "bad"}
         /\ \A m \in 1..(n - 1) : stream[m].kind \notin {"done", "bad"}
  ELSE Len(stream) + 1

\* The chunks parsed so far, by line number.
ParsedSoFar == { n \in 1..sp : n < StopAt /\ stream[n].kind = "chunk" }

RECURSIVE Flatten(_)
Flatten(seqs) == IF seqs = << >> THEN << >> ELSE Head(seqs) \o Flatten(Tail(seqs))

RECURSIVE JoinAll(_)
JoinAll(strs) == IF strs = << >> THEN "" ELSE Head(strs) \o JoinAll(Tail(strs))

\* The deltas of the parsed chunks and their tool-call fragments, in stream order.
Deltas ==
  Flatten([ n \in 1..sp |-> IF n \in ParsedSoFar THEN stream[n].choices ELSE << >> ])
ToolFragments == Flatten([ n \in 1..Len(Deltas) |-> Deltas[n].ToolCalls ])
FragmentsFor(p) == SelectSeq(ToolFragments, LAMBDA d : d.Index = p)
SeenPositions == { ToolFragments[n].Index : n \in 1..Len(ToolFragments) }

\* The last non-empty string of a sequence, "" when there is none.
LastNonEmpty(strs) ==
  IF \A n \in 1..Len(strs) : strs[n] = "" THEN ""
  ELSE strs[CHOOSE n \in 1..Len(strs) :
              strs[n] # "" /\ \A m \in (n + 1)..Len(strs) : strs[m] = ""]

\* The tool call the fragments of position p add up to.
CallOf(p) ==
  LET fr == FragmentsFor(p)
  IN [ID |-> LastNonEmpty([ n \in 1..Len(fr) |-> fr[n].ID ]),
      Type |-> LastNonEmpty([ n \in 1..Len(fr) |-> fr[n].Type ]),
      Function |-> [Name |-> LastNonEmpty([ n \in 1..Len(fr) |-> fr[n].Name ]),
                    Arguments |-> JoinAll([ n \in 1..Len(fr) |-> fr[n].Arguments ])]]

\* C17: the builder of every position holds the last non-empty id, kind and
\* name seen for that position and the concatenation, in arrival order, of
\* the argument pieces routed to it, also with fragments of other positions in
\* between; the fragments {0, abc, function, get_weather}, {0, "{a"}, {0, "b}"}
\* finalize to one call with that id, kind, name and arguments "{ab}".
C17_BuilderAccumulation ==
  /\ DOMAIN toolCallBuilders = SeenPositions
  /\ \A p \in DOMAIN toolCallBuilders :
       /\ toolCallBuilders[p].id = CallOf(p).ID
       /\ toolCallBuilders[p].typ = CallOf(p).Type
       /\ toolCallBuilders[p].name = CallOf(p).Function.Name
       /\ toolCallBuilders[p].arguments = CallOf(p).Function.Arguments
  /\ (ppc = "done"
        /\ stream = << Chunk(None, << Choice("", "", << ToolCallDelta(0, "abc", "function", "get_weather", "") >>) >>),
                       Chunk(None, << Choice("", "", << ToolCallDelta(0, "", "", "", "{a") >>) >>),
                       Chunk(None, << Choice("", "", << ToolCallDelta(0, "", "", "", "b}") >>) >>) >>)
       => ToolCalls = << [ID |-> "abc", Type |-> "function",
                          Function |-> [Name |-> "get_weather", Arguments |-> "{ab}"]] >>

C17_Witness ==
  /\ ppc = "done"
  /\ Len(ToolCalls) = 2
  /\ ToolCalls[1] = [ID |-> "xyz", Type |-> "function",
                     Function |-> [Name |-> "get_weather", Arguments |-> "q"]]
  /\ ToolCalls[2].Function.Arguments = "p"

\* The buffers grow by appending a fragment of their own kind (or the
\* fragments of the choices of one chunk, "Hel" and "lo"), or stay.
C18_AppendOnly ==
  /\ \E f \in {"", "Hel", "lo", "!", "Hello"} : Content' = Content \o f
  /\ \E f \in {"", "hm", "?"} : ReasoningContent' = ReasoningContent \o f
  /\ Chunks' = Chunks \/ (Len(Chunks') = Len(Chunks) + 1
                          /\ SubSeq(Chunks', 1, Len(Chunks)) = Chunks)

C18_Concatenation ==
  /\ Content = JoinAll([ n \in 1..Len(Deltas) |-> Deltas[n].Content ])
  /\ ReasoningContent = JoinAll([ n \in 1..Len(Deltas) |-> Deltas[n].ReasoningContent ])
  /\ (ppc = "done"
        /\ stream = << Chunk(None, << Choice("Hel", "", << >>) >>),
                       Chunk(None, << Choice("lo", "", << >>) >>),
                       [kind |-> "done"] >>)
       => (Content = "Hello" /\ ReasoningContent = "")

\* C18: the reconstructed text is the concatenation, in stream order, of the
\* text fragments of the chunks parsed before the sentinel or the end of the
\* input, the reasoning text that of the reasoning fragments; both buffers
\* only grow by appending and no fragment reaches the other buffer; "Hel",
\* "lo", sentinel gives "Hello".
C18_TextReconstruction == [][C18_AppendOnly]_vars /\ []C18_Concatenation

C18_Witness ==
  /\ ppc = "done"
  /\ Len(stream) = 3
  /\ stream[3] = [kind |-> "done"]
  /\ Content = "Hello"

\* C19: the Usage of the result is the snapshot, taken whole, of the last
\* parsed chunk that carried one; a chunk without a snapshot leaves it as it
\* is; it is absent when no chunk carried one.
C19_UsageLastWins ==
  LET carriers == { n \in ParsedSoFar : stream[n].usage # None }
  IN IF carriers = {} THEN Usage = None
     ELSE Usage = stream[CHOOSE n \in carriers : \A m \in carriers : m <= n].usage

C19_Witness ==
  /\ ppc = "done"
  /\ stream = << Chunk(UsageA, << >>), Chunk(UsageB, << >>),
                 Chunk(None, << Choice("lo", "", << >>) >>) >>
  /\ Usage = UsageB

\* C20: the finalized tool calls are emitted in strictly ascending position
\* order, each builder at most once; when the positions seen are exactly
\* 0..k-1 the result has k tool calls and its i-th entry is the call of
\* position i, whatever the arrival order.
C20_AscendingFinalization ==
  ppc \in {"build", "done"} =>
    /\ \E f \in [1..Len(ToolCalls) -> Positions] :
         /\ \A a, b \in 1..Len(ToolCalls) : a < b => f[a] < f[b]
         /\ \A m \in 1..Len(ToolCalls) :
              f[m] \in SeenPositions /\ ToolCalls[m] = CallOf(f[m])
    /\ (ppc = "done" /\ SeenPositions = 0..(Cardinality(SeenPositions) - 1)) =>
         /\ Len(ToolCalls) = Cardinality(SeenPositions)
         /\ \A m \in 1..Len(ToolCalls) : ToolCalls[m] = CallOf(m - 1)

C20_Witness ==
  /\ ppc = "done"
  /\ Len(stream) = 2
  /\ stream[1] = Chunk(None, << Choice("", "", << ToolCallDelta(1, "xyz", "", "", "") >>) >>)
  /\ Len(ToolCalls) = 2
  /\ ToolCalls[1].ID = "abc"
  /\ ToolCalls[2].ID = "xyz"

\* The first line that ends consumption is the sentinel / is malformed.
EndsAtSentinel == StopAt <= Len(stream) /\ stream[StopAt].kind = "done"
EndsAtMalformed == StopAt <= Len(stream) /\ stream[StopAt].kind = "bad"

\* The lines 1..n of the stream.
LinesUpTo(n) == SubSeq(stream, 1, n)

\* C21: a data line that does not parse as JSON aborts the reconstruction:
\* parseSSEStream returns an error and no message at all, together with the
\* raw lines captured up to and including the malformed one, and no line
\* after the malformed one is read.
C21_MalformedAborts ==
  /\ EndsAtMalformed => sp <= StopAt
  /\ (EndsAtMalformed /\ sp = StopAt) =>
        /\ ppc = "error"
        /\ out = [result |-> None, raw |-> LinesUpTo(StopAt),
                  err |-> "unmarshal chunk"]
  /\ ppc = "error" => (EndsAtMalformed /\ sp = StopAt /\ ToolCalls = << >>)
  /\ (EndsAtMalformed /\ sp < StopAt) => out = None

C21_Witness ==
  /\ ppc = "error"
  /\ out.result = None
  /\ Content = "Hel"
  /\ sp = 2
  /\ Len(stream) = 3
  /\ stream[3].kind = "chunk"

\* The chunks among the lines before the terminating one, in stream order.
ChunksBeforeStop ==
  SelectSeq(LinesUpTo(StopAt - 1), LAMBDA l : l.kind = "chunk")

C22_StateAtSentinel ==
  /\ EndsAtSentinel => sp <= StopAt
  /\ (EndsAtSentinel /\ sp = StopAt) =>
        /\ ppc \in {"build", "done"}
        /\ rawChunks = LinesUpTo(StopAt)
        /\ Chunks = ChunksBeforeStop
  /\ (EndsAtSentinel /\ sp = StopAt /\ ppc = "done") =>
        out = [result |-> [Content |-> Content,
                           ReasoningContent |-> ReasoningContent,
                           ToolCalls |-> ToolCalls, Usage |-> Usage,
                           Chunks |-> ChunksBeforeStop],
               raw |-> LinesUpTo(StopAt), err |-> "nil"]

C22_FrozenAfterSentinel ==
  (EndsAtSentinel /\ sp = StopAt) =>
    UNCHANGED << sp, Content, ReasoningContent, Usage, toolCallBuilders,
                 Chunks, rawChunks >>

C23_RawLog == sp <= StopAt /\ rawChunks = LinesUpTo(sp)

C23_NonDataLine ==
  (sp' = sp + 1) =>
    /\ rawChunks' = Append(rawChunks, stream[sp + 1])
    /\ stream[sp + 1].kind = "other" =>
          UNCHANGED << ppc, Content, ReasoningContent, toolCallBuilders, Usage,
                       Chunks, ToolCalls, out >>

\* C23: every line read, up to and including the terminating one, is
\* appended to the raw-frame log exactly once and in stream order whether or
\* not it parses, and for a line without the "data: " prefix this append is
\* its only effect.
C23_RawFrameLog == []C23_RawLog /\ [][C23_NonDataLine]_vars

C23_Witness ==
  /\ ppc = "error"
  /\ Len(rawChunks) = 3
  /\ rawChunks[2].kind = "other"
  /\ rawChunks[3].kind = "bad"
  /\ Content = "Hel"

\* The observed positions that are smaller than the number of observed
\* positions: the ones the final loop reaches.
ReachedPositions == { p \in SeenPositions : p < Cardinality(SeenPositions) }

\* C26: finalization by count drops non-contiguous positions silently: the
\* final list holds exactly the calls of the observed positions below the
\* number of distinct positions, in ascending order, and no error is
\* reported; positions {0,2} yield only the call of position 0.
C26_FinalizationByCount ==
  ppc = "done" =>
    /\ out.err = "nil"
    /\ Len(ToolCalls) = Cardinality(ReachedPositions)
    /\ \A m \in 1..Len(ToolCalls) :
         ToolCalls[m] = CallOf(NthPosition(ReachedPositions, m - 1))
    /\ out.result.ToolCalls = ToolCalls

C26_Witness ==
  /\ ppc = "done"
  /\ out.err = "nil"
  /\ SeenPositions = {0, 2}
  /\ Len(out.result.ToolCalls) = 1
  /\ out.result.ToolCalls[1].ID = "abc"
  /\ CallOf(2).ID = "xyz"

\* The tool calls of the rebuilt message as (id, name, arguments).
ReportedToolCalls ==
  LET tcs == StringOr(synthetic.tool_calls, << >>)
  IN [ n \in 1..Len(tcs) |->
         [ID |-> StringOr(tcs[n].id, ""), Name |-> tcs[n].function.name,
          Arguments |-> tcs[n].function.arguments] ]

\* The tool calls parseSSEStream returned as (id, name, arguments).
ReturnedToolCalls ==
  [ n \in 1..Len(out.result.ToolCalls) |->
      [ID |-> out.result.ToolCalls[n].ID,
       Name |-> out.result.ToolCalls[n].Function.Name,
       Arguments |-> out.result.ToolCalls[n].Function.Arguments] ]

\* C30: the logger's report reconstruction agrees with parseSSEStream: for
\* the same parsed chunks reconstructFromChunks yields the same text, the
\* same reasoning text and the same ordered tool calls (id, name, arguments).
C30_ReportAgrees ==
  synthetic # None =>
    /\ StringOr(synthetic.content, "") = out.result.Content
    /\ StringOr(synthetic.reasoning_content, "") = out.result.ReasoningContent
    /\ ReportedToolCalls = ReturnedToolCalls

\* The agreement on the streams whose chunks carry at most one choice.
C30_AgreesOnSingleChoice ==
  (synthetic # None /\ \A n \in 1..Len(Chunks) : Len(Chunks[n].choices) <= 1)
    => C30_ReportAgrees

\* The request in progress was answered with a status other than 200.
NonSuccess == resp # None /\ resp.status # 200

C27_ErrorCarriesStatus ==
  /\ NonSuccess => cpc \in {"status", "returned"}
  /\ (NonSuccess /\ cpc = "returned") =>
        /\ ret = [err |-> [error |-> "unexpected status",
                           status |-> resp.status, body |-> resp.body]]
        /\ requests = iteration + 1
        /\ decodes = iteration
  /\ (NonSuccess /\ caseResult # None) =>
        /\ ~caseResult.Passed
        /\ caseResult.Message.text = "request failed"
        /\ caseResult.Message.err.status = resp.status
        /\ caseResult.Message.err.body = resp.body

C27_NothingFurther ==
  NonSuccess => UNCHANGED << requests, decodes, iteration, resp >>

C29_StopReasons ==
  /\ requests <= maxIterations
  /\ caseResult # None =>
        \/ /\ ret.err # None
           /\ requests = iteration + 1
           /\ toolCallRounds = iteration
           /\ caseResult = RequestFailed(iteration, ret.err)
        \/ /\ ret.err = None
           /\ ret.val.toolCalls = 0
           /\ requests = iteration + 1
           /\ toolCallRounds = iteration
           /\ caseResult =
                IF ~eStreaming /\ ret.val.choices = 0
                THEN Failed([text |-> "no choices in response",
                             iteration |-> iteration + 1])
                ELSE validateFinalResponse(ret.val.content, toolCallRounds)
        \/ /\ ret.err = None
           /\ ret.val.toolCalls > 0
           /\ requests = maxIterations
           /\ toolCallRounds = maxIterations
           /\ ~caseResult.Passed
           /\ caseResult.Message = "reached max iterations"

C28_ShutdownOrder ==
  (~Sequential) =>
    /\ jobsClosed => (i > Len(evals) /\ pc[0] \notin {"run", "par_dispatch"})
    /\ resultClosed =>
         (jobsClosed /\ \A w \in Workers(config.Jobs) : pc[w] = "exited")
    /\ apc = "exited" => resultClosed
    /\ Done =>
         /\ apc = "exited"
         /\ Len(returned) = Len(TheJobs)
         /\ \A w \in Workers(config.Jobs) : pc[w] = "exited"

\* C28: a parallel run always terminates when every case body returns: the
\* dispatcher closes the job queue after the last send, every worker then
\* exits, the result channel is closed only after all workers have exited, the
\* aggregator drains it and exits, and Run returns; nothing is sent on a
\* closed channel and no interleaving deadlocks.
C28_ParallelTerminates ==
  /\ []C28_ShutdownOrder
  /\ (((~Sequential) /\ hung = None) ~> Done)

C28_Witness ==
  /\ Done
  /\ hung = None
  /\ config.Jobs = 2
  /\ Len(TheJobs) = 1
  /\ Len(returned) = 1
  /\ apc = "exited"
  /\ resultClosed

C28_WitnessNoJobs ==
  /\ Done
  /\ hung = None
  /\ config.Jobs = 2
  /\ TheJobs = << >>
  /\ apc = "exited"

\* The locals of the single call of parseSSEStream of the parser model.
OwnLocals ==
  [stream |-> stream, ppc |-> ppc, sp |-> sp, Chunks |-> Chunks,
   Content |-> Content, ReasoningContent |-> ReasoningContent, Usage |-> Usage,
   ToolCalls |-> ToolCalls, toolCallBuilders |-> toolCallBuilders, bi |-> bi,
   rawChunks |-> rawChunks, out |-> out]

\* Every step of the single call is a step of Advance on its locals.
AdvanceIsParseStep ==
  [][synthetic' = synthetic => OwnLocals' \in Advance(OwnLocals)]_vars

\* What a call returns for the lines st when it runs on its own.
RECURSIVE RunAlone(_)
RunAlone(l) ==
  IF Returned(l) THEN l.out ELSE RunAlone(CHOOSE next \in Advance(l) : TRUE)
Alone(st) == RunAlone(Locals(st))

C25_OwnResult ==
  \A r \in DOMAIN recons :
    Returned(recons[r]) => recons[r].out = Alone(recons[r].stream)

C25_OneAtATime ==
  \E r \in DOMAIN recons : \A q \in DOMAIN recons \ {r} : recons'[q] = recons[q]

====
